---------------------------- MODULE Spec2Model ----------------------------
(***************************************************************************)
(* Feature resolution, baseline enrichment and plan deduplication of the   *)
(* harmony dashboard (services/webFeaturesService.ts, webFeaturesData.ts,  *)
(* services/geminiService.ts), its analysis and chat requests (App.tsx,    *)
(* components/ChatSidebar.tsx), fallback generation                        *)
(* (services/codeGenerationService.ts, server/index.js), the rendered      *)
(* feature list (components/AnalysisDisplay.tsx) and the theme (App.tsx).  *)
(*                                                                         *)
(* JavaScript strings that the code inspects character by character        *)
(* (feature names, titles, aliases) are sequences of one-character         *)
(* strings; feature ids, which the code only compares and uses as keys,    *)
(* are TLA+ strings.                                                       *)
(***************************************************************************)
EXTENDS Integers, Sequences, FiniteSets, TLC

(***************************************************************************)
(* JavaScript values                                                       *)
(***************************************************************************)
\* `undefined` where an id (a string) is expected.
Undefined == "undefined"

\* A string / boolean value of a loosely typed field (typeof v).
Str(s) == [t |-> "string", s |-> s]
Bool(b) == [t |-> "boolean", b |-> b]

\* `undefined` where a FeatureBaselineStatus is expected.
NoBaseline == [defined |-> FALSE]

\* Truthiness of an id-valued expression: undefined and "" are falsy.
Truthy(x) == x # Undefined /\ x # ""

(***************************************************************************)
(* Character classes and string primitives                                 *)
(***************************************************************************)
LowerLetters ==
  {"a","b","c","d","e","f","g","h","i","j","k","l","m",
   "n","o","p","q","r","s","t","u","v","w","x","y","z"}

ToLowerMap ==
  ("A" :> "a") @@ ("B" :> "b") @@ ("C" :> "c") @@ ("D" :> "d") @@
  ("E" :> "e") @@ ("F" :> "f") @@ ("G" :> "g") @@ ("H" :> "h") @@
  ("I" :> "i") @@ ("J" :> "j") @@ ("K" :> "k") @@ ("L" :> "l") @@
  ("M" :> "m") @@ ("N" :> "n") @@ ("O" :> "o") @@ ("P" :> "p") @@
  ("Q" :> "q") @@ ("R" :> "r") @@ ("S" :> "s") @@ ("T" :> "t") @@
  ("U" :> "u") @@ ("V" :> "v") @@ ("W" :> "w") @@ ("X" :> "x") @@
  ("Y" :> "y") @@ ("Z" :> "z")

UpperLetters == DOMAIN ToLowerMap

Digits == {"0","1","2","3","4","5","6","7","8","9"}

\* \s of a regular expression
Whitespace == {" ", "\t", "\n"}

\* \w of a regular expression: [A-Za-z0-9_]
WordChars == LowerLetters \cup UpperLetters \cup Digits \cup {"_"}

\* String.prototype.toLowerCase
toLowerCase(s) ==
  [i \in 1..Len(s) |-> IF s[i] \in UpperLetters THEN ToLowerMap[s[i]] ELSE s[i]]

\* String.prototype.trim
trim(s) ==
  LET keep == {i \in 1..Len(s) : s[i] \notin Whitespace}
  IN  IF keep = {} THEN <<>>
      ELSE LET lo == CHOOSE i \in keep : \A k \in keep : i <= k
               hi == CHOOSE i \in keep : \A k \in keep : i >= k
           IN  SubSeq(s, lo, hi)

\* String.prototype.includes
includes(s, sub) ==
  \E i \in 0..(Len(s) - Len(sub)) : SubSeq(s, i + 1, i + Len(sub)) = sub

\* s.replace(/\s+/g, " "): every maximal run of whitespace becomes one space
RECURSIVE collapseFrom(_, _)
collapseFrom(s, i) ==
  IF i > Len(s) THEN <<>>
  ELSE IF s[i] \notin Whitespace THEN <<s[i]>> \o collapseFrom(s, i + 1)
  ELSE IF i > 1 /\ s[i - 1] \in Whitespace THEN collapseFrom(s, i + 1)
  ELSE <<" ">> \o collapseFrom(s, i + 1)

collapseWhitespace(s) == collapseFrom(s, 1)

\* s.replace(/[^\w\s]/g, "")
stripPunctuation(s) ==
  SelectSeq(s, LAMBDA c : c \in WordChars \/ c \in Whitespace)

(***************************************************************************)
(* webFeaturesData.ts: the curated dataset, in declaration order           *)
(***************************************************************************)
WEB_FEATURES_DATA ==
  <<
    [key |-> "css.properties.display", id |-> "css.properties.display",
     title |-> <<"C","S","S"," ","D","i","s","p","l","a","y"," ","P","r","o","p","e","r","t","y">>,
     aliases |-> << <<"d","i","s","p","l","a","y">>, <<"c","s","s"," ","d","i","s","p","l","a","y">> >>,
     status |-> [baseline |-> Bool(TRUE),
                 support |-> [chrome |-> Str("1"), firefox |-> Str("1"), safari |-> Str("1"), edge |-> Str("12")]]],
    [key |-> "css.properties.grid", id |-> "css.properties.grid",
     title |-> <<"C","S","S"," ","G","r","i","d"," ","L","a","y","o","u","t">>,
     aliases |-> << <<"g","r","i","d">>, <<"g","r","i","d"," ","l","a","y","o","u","t">>, <<"c","s","s"," ","g","r","i","d">> >>,
     status |-> [baseline |-> Bool(TRUE),
                 support |-> [chrome |-> Str("57"), firefox |-> Str("52"), safari |-> Str("10.1"), edge |-> Str("16"), chrome_android |-> Str("57"), firefox_android |-> Str("52"), safari_ios |-> Str("10.3")]]],
    [key |-> "css.properties.flexbox", id |-> "css.properties.flexbox",
     title |-> <<"C","S","S"," ","F","l","e","x","b","o","x">>,
     aliases |-> << <<"f","l","e","x">>, <<"f","l","e","x","b","o","x">>, <<"f","l","e","x"," ","l","a","y","o","u","t">>, <<"c","s","s"," ","f","l","e","x","b","o","x">> >>,
     status |-> [baseline |-> Bool(TRUE),
                 support |-> [chrome |-> Str("29"), firefox |-> Str("28"), safari |-> Str("9"), edge |-> Str("12"), chrome_android |-> Str("29"), firefox_android |-> Str("28"), safari_ios |-> Str("9")]]],
    [key |-> "css.properties.container-query", id |-> "css.properties.container-query",
     title |-> <<"C","S","S"," ","C","o","n","t","a","i","n","e","r"," ","Q","u","e","r","i","e","s">>,
     aliases |-> << <<"c","o","n","t","a","i","n","e","r"," ","q","u","e","r","i","e","s">>, <<"c","o","n","t","a","i","n","e","r"," ","q","u","e","r","y">> >>,
     status |-> [baseline |-> Bool(FALSE),
                 support |-> [chrome |-> Str("105"), firefox |-> Str("110"), safari |-> Str("16"), edge |-> Str("105")]]],
    [key |-> "css.properties.aspect-ratio", id |-> "css.properties.aspect-ratio",
     title |-> <<"C","S","S"," ","A","s","p","e","c","t"," ","R","a","t","i","o">>,
     aliases |-> << <<"a","s","p","e","c","t"," ","r","a","t","i","o">>, <<"a","s","p","e","c","t","-","r","a","t","i","o">> >>,
     status |-> [baseline |-> Str("low"),
                 support |-> [chrome |-> Str("88"), firefox |-> Str("89"), safari |-> Str("15"), edge |-> Str("88")]]],
    [key |-> "css.properties.position-sticky", id |-> "css.properties.position-sticky",
     title |-> <<"C","S","S"," ","p","o","s","i","t","i","o","n",":"," ","s","t","i","c","k","y">>,
     aliases |-> << <<"s","t","i","c","k","y">>, <<"p","o","s","i","t","i","o","n"," ","s","t","i","c","k","y">> >>,
     status |-> [baseline |-> Bool(TRUE),
                 support |-> [chrome |-> Str("56"), firefox |-> Str("32"), safari |-> Str("6.1"), edge |-> Str("16")]]],
    [key |-> "css.media.prefers-color-scheme", id |-> "css.media.prefers-color-scheme",
     title |-> <<"D","a","r","k"," ","M","o","d","e"," ","(","p","r","e","f","e","r","s","-","c","o","l","o","r","-","s","c","h","e","m","e",")">>,
     aliases |-> << <<"d","a","r","k"," ","m","o","d","e">>, <<"t","h","e","m","i","n","g">>, <<"p","r","e","f","e","r","s","-","c","o","l","o","r","-","s","c","h","e","m","e">> >>,
     status |-> [baseline |-> Bool(TRUE),
                 support |-> [chrome |-> Str("76"), firefox |-> Str("67"), safari |-> Str("12.1"), edge |-> Str("79"), chrome_android |-> Str("76"), firefox_android |-> Str("67"), safari_ios |-> Str("13")]]],
    [key |-> "css.properties.color-scheme", id |-> "css.properties.color-scheme",
     title |-> <<"C","S","S"," ","c","o","l","o","r","-","s","c","h","e","m","e">>,
     aliases |-> << <<"c","o","l","o","r"," ","s","c","h","e","m","e">>, <<"c","o","l","o","r","-","s","c","h","e","m","e">> >>,
     status |-> [baseline |-> Bool(TRUE),
                 support |-> [chrome |-> Str("81"), firefox |-> Str("96"), safari |-> Str("15"), edge |-> Str("81")]]],
    [key |-> "css.custom-properties", id |-> "css.custom-properties",
     title |-> <<"C","S","S"," ","C","u","s","t","o","m"," ","P","r","o","p","e","r","t","i","e","s"," ","(","V","a","r","i","a","b","l","e","s",")">>,
     aliases |-> << <<"c","s","s"," ","v","a","r","i","a","b","l","e","s">>, <<"c","u","s","t","o","m"," ","p","r","o","p","e","r","t","i","e","s">>, <<"v","a","r","i","a","b","l","e","s">> >>,
     status |-> [baseline |-> Bool(TRUE),
                 support |-> [chrome |-> Str("49"), firefox |-> Str("31"), safari |-> Str("9.1"), edge |-> Str("15")]]],
    [key |-> "css.at-rules.media", id |-> "css.at-rules.media",
     title |-> <<"C","S","S"," ","M","e","d","i","a"," ","Q","u","e","r","i","e","s">>,
     aliases |-> << <<"m","e","d","i","a"," ","q","u","e","r","i","e","s">>, <<"r","e","s","p","o","n","s","i","v","e">>, <<"@","m","e","d","i","a">> >>,
     status |-> [baseline |-> Bool(TRUE),
                 support |-> [chrome |-> Str("21"), firefox |-> Str("9"), safari |-> Str("6"), edge |-> Str("12")]]],
    [key |-> "css.functions.clamp", id |-> "css.functions.clamp",
     title |-> <<"C","S","S"," ","c","l","a","m","p","(",")">>,
     aliases |-> << <<"c","l","a","m","p">>, <<"f","l","u","i","d"," ","t","y","p","o","g","r","a","p","h","y">> >>,
     status |-> [baseline |-> Bool(TRUE),
                 support |-> [chrome |-> Str("79"), firefox |-> Str("75"), safari |-> Str("13.1"), edge |-> Str("79")]]],
    [key |-> "css.selectors.has", id |-> "css.selectors.has",
     title |-> <<":","h","a","s","(",")"," ","s","e","l","e","c","t","o","r">>,
     aliases |-> << <<":","h","a","s">>, <<"h","a","s"," ","s","e","l","e","c","t","o","r">> >>,
     status |-> [baseline |-> Str("low"),
                 support |-> [chrome |-> Str("105"), firefox |-> Str("121"), safari |-> Str("15.4"), edge |-> Str("105")]]],
    [key |-> "css.selectors.is", id |-> "css.selectors.is",
     title |-> <<":","i","s","(",")"," ","s","e","l","e","c","t","o","r">>,
     aliases |-> << <<":","i","s">>, <<"i","s"," ","s","e","l","e","c","t","o","r">> >>,
     status |-> [baseline |-> Bool(TRUE),
                 support |-> [chrome |-> Str("88"), firefox |-> Str("78"), safari |-> Str("14"), edge |-> Str("88")]]],
    [key |-> "css.selectors.where", id |-> "css.selectors.where",
     title |-> <<":","w","h","e","r","e","(",")"," ","s","e","l","e","c","t","o","r">>,
     aliases |-> << <<":","w","h","e","r","e">>, <<"w","h","e","r","e"," ","s","e","l","e","c","t","o","r">> >>,
     status |-> [baseline |-> Bool(TRUE),
                 support |-> [chrome |-> Str("88"), firefox |-> Str("78"), safari |-> Str("15.4"), edge |-> Str("88")]]],
    [key |-> "html.elements.img.srcset", id |-> "html.elements.img.srcset",
     title |-> <<"R","e","s","p","o","n","s","i","v","e"," ","I","m","a","g","e","s",":"," ","s","r","c","s","e","t">>,
     aliases |-> << <<"r","e","s","p","o","n","s","i","v","e"," ","i","m","a","g","e","s">>, <<"s","r","c","s","e","t">> >>,
     status |-> [baseline |-> Bool(TRUE),
                 support |-> [chrome |-> Str("34"), firefox |-> Str("38"), safari |-> Str("9"), edge |-> Str("14")]]],
    [key |-> "html.elements.img.sizes", id |-> "html.elements.img.sizes",
     title |-> <<"R","e","s","p","o","n","s","i","v","e"," ","I","m","a","g","e","s",":"," ","s","i","z","e","s">>,
     aliases |-> << <<"s","i","z","e","s"," ","a","t","t","r","i","b","u","t","e">>, <<"r","e","s","p","o","n","s","i","v","e"," ","i","m","a","g","e","s">> >>,
     status |-> [baseline |-> Bool(TRUE),
                 support |-> [chrome |-> Str("34"), firefox |-> Str("38"), safari |-> Str("9"), edge |-> Str("14")]]],
    [key |-> "html.elements.dialog", id |-> "html.elements.dialog",
     title |-> <<"<","d","i","a","l","o","g",">"," ","e","l","e","m","e","n","t">>,
     aliases |-> << <<"d","i","a","l","o","g">>, <<"m","o","d","a","l"," ","d","i","a","l","o","g">> >>,
     status |-> [baseline |-> Bool(TRUE),
                 support |-> [chrome |-> Bool(TRUE), firefox |-> Bool(TRUE), safari |-> Bool(TRUE), edge |-> Bool(TRUE), chrome_android |-> Bool(TRUE), firefox_android |-> Bool(TRUE), safari_ios |-> Str("15.4")]]],
    [key |-> "html.attributes.popover", id |-> "html.attributes.popover",
     title |-> <<"P","o","p","o","v","e","r"," ","a","t","t","r","i","b","u","t","e">>,
     aliases |-> << <<"p","o","p","o","v","e","r">>, <<"p","o","p","o","v","e","r"," ","a","t","t","r","i","b","u","t","e">> >>,
     status |-> [baseline |-> Str("low"),
                 support |-> [chrome |-> Bool(TRUE), firefox |-> Bool(FALSE), safari |-> Bool(TRUE), edge |-> Bool(TRUE)]]],
    [key |-> "js.syntax.optional-chaining", id |-> "js.syntax.optional-chaining",
     title |-> <<"O","p","t","i","o","n","a","l"," ","c","h","a","i","n","i","n","g"," ","(","?",".",")">>,
     aliases |-> << <<"o","p","t","i","o","n","a","l"," ","c","h","a","i","n","i","n","g">>, <<"?",".">>, <<"s","a","f","e"," ","n","a","v","i","g","a","t","i","o","n">>, <<"n","u","l","l"," ","c","o","n","d","i","t","i","o","n","a","l">> >>,
     status |-> [baseline |-> Bool(TRUE),
                 support |-> [chrome |-> Str("80"), firefox |-> Str("72"), safari |-> Str("13.1"), edge |-> Str("80"), chrome_android |-> Str("80"), firefox_android |-> Str("79"), safari_ios |-> Str("13.4")]]],
    [key |-> "js.syntax.top-level-await", id |-> "js.syntax.top-level-await",
     title |-> <<"T","o","p","-","l","e","v","e","l"," ","a","w","a","i","t">>,
     aliases |-> << <<"t","l","a">>, <<"t","o","p"," ","l","e","v","e","l"," ","a","w","a","i","t">> >>,
     status |-> [baseline |-> Bool(TRUE),
                 support |-> [chrome |-> Bool(TRUE), firefox |-> Bool(TRUE), safari |-> Bool(TRUE), edge |-> Bool(TRUE)]]],
    [key |-> "js.import-maps", id |-> "js.import-maps",
     title |-> <<"I","m","p","o","r","t"," ","M","a","p","s">>,
     aliases |-> << <<"i","m","p","o","r","t"," ","m","a","p","s">> >>,
     status |-> [baseline |-> Str("low"),
                 support |-> [chrome |-> Bool(TRUE), firefox |-> Bool(FALSE), safari |-> Bool(TRUE), edge |-> Bool(TRUE)]]],
    [key |-> "api.fetch", id |-> "api.fetch",
     title |-> <<"F","e","t","c","h"," ","A","P","I">>,
     aliases |-> << <<"f","e","t","c","h">> >>,
     status |-> [baseline |-> Bool(TRUE),
                 support |-> [chrome |-> Bool(TRUE), firefox |-> Bool(TRUE), safari |-> Bool(TRUE), edge |-> Bool(TRUE)]]],
    [key |-> "api.abort-controller", id |-> "api.abort-controller",
     title |-> <<"A","b","o","r","t","C","o","n","t","r","o","l","l","e","r">>,
     aliases |-> << <<"a","b","o","r","t","c","o","n","t","r","o","l","l","e","r">>, <<"a","b","o","r","t"," ","s","i","g","n","a","l">> >>,
     status |-> [baseline |-> Bool(TRUE),
                 support |-> [chrome |-> Bool(TRUE), firefox |-> Bool(TRUE), safari |-> Bool(TRUE), edge |-> Bool(TRUE)]]],
    [key |-> "api.websocket", id |-> "api.websocket",
     title |-> <<"W","e","b","S","o","c","k","e","t">>,
     aliases |-> << <<"w","e","b","s","o","c","k","e","t">> >>,
     status |-> [baseline |-> Bool(TRUE),
                 support |-> [chrome |-> Bool(TRUE), firefox |-> Bool(TRUE), safari |-> Bool(TRUE), edge |-> Bool(TRUE)]]],
    [key |-> "api.indexeddb", id |-> "api.indexeddb",
     title |-> <<"I","n","d","e","x","e","d","D","B">>,
     aliases |-> << <<"i","n","d","e","x","e","d","d","b">>, <<"i","d","b">> >>,
     status |-> [baseline |-> Bool(TRUE),
                 support |-> [chrome |-> Bool(TRUE), firefox |-> Bool(TRUE), safari |-> Bool(TRUE), edge |-> Bool(TRUE)]]],
    [key |-> "api.cache-storage", id |-> "api.cache-storage",
     title |-> <<"C","a","c","h","e"," ","S","t","o","r","a","g","e"," ","A","P","I">>,
     aliases |-> << <<"c","a","c","h","e"," ","s","t","o","r","a","g","e">>, <<"c","a","c","h","e","s">> >>,
     status |-> [baseline |-> Bool(TRUE),
                 support |-> [chrome |-> Bool(TRUE), firefox |-> Bool(TRUE), safari |-> Bool(TRUE), edge |-> Bool(TRUE)]]],
    [key |-> "api.service-worker", id |-> "api.service-worker",
     title |-> <<"S","e","r","v","i","c","e"," ","W","o","r","k","e","r">>,
     aliases |-> << <<"s","e","r","v","i","c","e"," ","w","o","r","k","e","r">>, <<"s","w">> >>,
     status |-> [baseline |-> Bool(TRUE),
                 support |-> [chrome |-> Bool(TRUE), firefox |-> Bool(TRUE), safari |-> Bool(TRUE), edge |-> Bool(TRUE), chrome_android |-> Bool(TRUE), firefox_android |-> Bool(TRUE), safari_ios |-> Str("11.1")]]],
    [key |-> "api.web-app-manifest", id |-> "api.web-app-manifest",
     title |-> <<"W","e","b"," ","A","p","p"," ","M","a","n","i","f","e","s","t">>,
     aliases |-> << <<"m","a","n","i","f","e","s","t",".","j","s","o","n">>, <<"p","w","a"," ","m","a","n","i","f","e","s","t">> >>,
     status |-> [baseline |-> Str("low"),
                 support |-> [chrome |-> Bool(TRUE), firefox |-> Bool(FALSE), safari |-> Bool(TRUE), edge |-> Bool(TRUE)]]],
    [key |-> "api.web-share", id |-> "api.web-share",
     title |-> <<"W","e","b"," ","S","h","a","r","e"," ","A","P","I">>,
     aliases |-> << <<"n","a","v","i","g","a","t","o","r",".","s","h","a","r","e">>, <<"w","e","b"," ","s","h","a","r","e">> >>,
     status |-> [baseline |-> Str("low"),
                 support |-> [chrome |-> Bool(TRUE), firefox |-> Bool(FALSE), safari |-> Bool(TRUE), edge |-> Bool(TRUE), chrome_android |-> Bool(TRUE), firefox_android |-> Bool(FALSE), safari_ios |-> Bool(TRUE)]]],
    [key |-> "api.file-system-access", id |-> "api.file-system-access",
     title |-> <<"F","i","l","e"," ","S","y","s","t","e","m"," ","A","c","c","e","s","s"," ","A","P","I">>,
     aliases |-> << <<"f","i","l","e"," ","s","y","s","t","e","m"," ","a","c","c","e","s","s">>, <<"s","h","o","w","O","p","e","n","F","i","l","e","P","i","c","k","e","r">> >>,
     status |-> [baseline |-> Str("low"),
                 support |-> [chrome |-> Bool(TRUE), firefox |-> Bool(FALSE), safari |-> Bool(FALSE), edge |-> Bool(TRUE)]]],
    [key |-> "http.csp", id |-> "http.csp",
     title |-> <<"C","o","n","t","e","n","t"," ","S","e","c","u","r","i","t","y"," ","P","o","l","i","c","y"," ","(","C","S","P",")">>,
     aliases |-> << <<"c","s","p">>, <<"c","o","n","t","e","n","t"," ","s","e","c","u","r","i","t","y"," ","p","o","l","i","c","y">> >>,
     status |-> [baseline |-> Bool(TRUE),
                 support |-> [chrome |-> Bool(TRUE), firefox |-> Bool(TRUE), safari |-> Bool(TRUE), edge |-> Bool(TRUE)]]],
    [key |-> "http.referrer-policy", id |-> "http.referrer-policy",
     title |-> <<"R","e","f","e","r","r","e","r"," ","P","o","l","i","c","y">>,
     aliases |-> << <<"r","e","f","e","r","r","e","r"," ","p","o","l","i","c","y">> >>,
     status |-> [baseline |-> Bool(TRUE),
                 support |-> [chrome |-> Bool(TRUE), firefox |-> Bool(TRUE), safari |-> Bool(TRUE), edge |-> Bool(TRUE)]]],
    [key |-> "api.webauthn", id |-> "api.webauthn",
     title |-> <<"W","e","b","A","u","t","h","n"," ","(","P","a","s","s","k","e","y","s",")">>,
     aliases |-> << <<"w","e","b","a","u","t","h","n">>, <<"p","a","s","s","k","e","y","s">> >>,
     status |-> [baseline |-> Bool(TRUE),
                 support |-> [chrome |-> Bool(TRUE), firefox |-> Bool(TRUE), safari |-> Bool(TRUE), edge |-> Bool(TRUE)]]],
    [key |-> "api.geolocation", id |-> "api.geolocation",
     title |-> <<"G","e","o","l","o","c","a","t","i","o","n"," ","A","P","I">>,
     aliases |-> << <<"g","e","o","l","o","c","a","t","i","o","n">> >>,
     status |-> [baseline |-> Bool(TRUE),
                 support |-> [chrome |-> Bool(TRUE), firefox |-> Bool(TRUE), safari |-> Bool(TRUE), edge |-> Bool(TRUE), chrome_android |-> Bool(TRUE), firefox_android |-> Bool(TRUE), safari_ios |-> Bool(TRUE)]]],
    [key |-> "api.screen-wake-lock", id |-> "api.screen-wake-lock",
     title |-> <<"S","c","r","e","e","n"," ","W","a","k","e"," ","L","o","c","k"," ","A","P","I">>,
     aliases |-> << <<"w","a","k","e"," ","l","o","c","k">>, <<"s","c","r","e","e","n"," ","w","a","k","e","l","o","c","k">> >>,
     status |-> [baseline |-> Str("low"),
                 support |-> [chrome |-> Bool(TRUE), firefox |-> Bool(FALSE), safari |-> Bool(TRUE), edge |-> Bool(TRUE)]]],
    [key |-> "api.mediarecorder", id |-> "api.mediarecorder",
     title |-> <<"M","e","d","i","a","R","e","c","o","r","d","e","r">>,
     aliases |-> << <<"m","e","d","i","a"," ","r","e","c","o","r","d","e","r">>, <<"r","e","c","o","r","d"," ","m","e","d","i","a">> >>,
     status |-> [baseline |-> Bool(TRUE),
                 support |-> [chrome |-> Bool(TRUE), firefox |-> Bool(TRUE), safari |-> Bool(TRUE), edge |-> Bool(TRUE)]]],
    [key |-> "api.webrtc", id |-> "api.webrtc",
     title |-> <<"W","e","b","R","T","C">>,
     aliases |-> << <<"w","e","b","r","t","c">>, <<"r","t","c">> >>,
     status |-> [baseline |-> Bool(TRUE),
                 support |-> [chrome |-> Bool(TRUE), firefox |-> Bool(TRUE), safari |-> Bool(TRUE), edge |-> Bool(TRUE), chrome_android |-> Bool(TRUE), firefox_android |-> Bool(TRUE), safari_ios |-> Str("11")]]],
    [key |-> "api.media-session", id |-> "api.media-session",
     title |-> <<"M","e","d","i","a"," ","S","e","s","s","i","o","n"," ","A","P","I">>,
     aliases |-> << <<"m","e","d","i","a"," ","s","e","s","s","i","o","n">> >>,
     status |-> [baseline |-> Str("low"),
                 support |-> [chrome |-> Bool(TRUE), firefox |-> Bool(FALSE), safari |-> Bool(TRUE), edge |-> Bool(TRUE)]]],
    [key |-> "api.view-transitions", id |-> "api.view-transitions",
     title |-> <<"V","i","e","w"," ","T","r","a","n","s","i","t","i","o","n","s"," ","A","P","I">>,
     aliases |-> << <<"v","i","e","w"," ","t","r","a","n","s","i","t","i","o","n","s">>, <<"d","o","c","u","m","e","n","t",".","s","t","a","r","t","V","i","e","w","T","r","a","n","s","i","t","i","o","n">> >>,
     status |-> [baseline |-> Str("low"),
                 support |-> [chrome |-> Bool(TRUE), firefox |-> Bool(FALSE), safari |-> Bool(TRUE), edge |-> Bool(TRUE)]]],
    [key |-> "api.navigation", id |-> "api.navigation",
     title |-> <<"N","a","v","i","g","a","t","i","o","n"," ","A","P","I">>,
     aliases |-> << <<"n","a","v","i","g","a","t","i","o","n"," ","a","p","i">>, <<"a","p","p"," ","h","i","s","t","o","r","y">> >>,
     status |-> [baseline |-> Str("low"),
                 support |-> [chrome |-> Bool(TRUE), firefox |-> Bool(FALSE), safari |-> Bool(TRUE), edge |-> Bool(TRUE)]]],
    [key |-> "js.sharedarraybuffer", id |-> "js.sharedarraybuffer",
     title |-> <<"S","h","a","r","e","d","A","r","r","a","y","B","u","f","f","e","r"," ","&"," ","A","t","o","m","i","c","s">>,
     aliases |-> << <<"s","h","a","r","e","d","a","r","r","a","y","b","u","f","f","e","r">>, <<"a","t","o","m","i","c","s">> >>,
     status |-> [baseline |-> Str("low"),
                 support |-> [chrome |-> Bool(TRUE), firefox |-> Bool(TRUE), safari |-> Bool(TRUE), edge |-> Bool(TRUE)]]],
    [key |-> "http.headers.coop", id |-> "http.headers.coop",
     title |-> <<"C","r","o","s","s","-","O","r","i","g","i","n","-","O","p","e","n","e","r","-","P","o","l","i","c","y"," ","(","C","O","O","P",")">>,
     aliases |-> << <<"c","o","o","p">>, <<"c","r","o","s","s","-","o","r","i","g","i","n","-","o","p","e","n","e","r","-","p","o","l","i","c","y">> >>,
     status |-> [baseline |-> Str("low"),
                 support |-> [chrome |-> Bool(TRUE), firefox |-> Bool(TRUE), safari |-> Bool(TRUE), edge |-> Bool(TRUE)]]],
    [key |-> "http.headers.coep", id |-> "http.headers.coep",
     title |-> <<"C","r","o","s","s","-","O","r","i","g","i","n","-","E","m","b","e","d","d","e","r","-","P","o","l","i","c","y"," ","(","C","O","E","P",")">>,
     aliases |-> << <<"c","o","e","p">>, <<"c","r","o","s","s","-","o","r","i","g","i","n","-","e","m","b","e","d","d","e","r","-","p","o","l","i","c","y">> >>,
     status |-> [baseline |-> Str("low"),
                 support |-> [chrome |-> Bool(TRUE), firefox |-> Bool(TRUE), safari |-> Bool(TRUE), edge |-> Bool(TRUE)]]],
    [key |-> "http.headers.corp", id |-> "http.headers.corp",
     title |-> <<"C","r","o","s","s","-","O","r","i","g","i","n","-","R","e","s","o","u","r","c","e","-","P","o","l","i","c","y"," ","(","C","O","R","P",")">>,
     aliases |-> << <<"c","o","r","p">>, <<"c","r","o","s","s","-","o","r","i","g","i","n","-","r","e","s","o","u","r","c","e","-","p","o","l","i","c","y">> >>,
     status |-> [baseline |-> Bool(TRUE),
                 support |-> [chrome |-> Bool(TRUE), firefox |-> Bool(TRUE), safari |-> Bool(TRUE), edge |-> Bool(TRUE)]]],
    [key |-> "api.clipboard", id |-> "api.clipboard",
     title |-> <<"A","s","y","n","c"," ","C","l","i","p","b","o","a","r","d"," ","A","P","I">>,
     aliases |-> << <<"c","l","i","p","b","o","a","r","d"," ","a","p","i">>, <<"n","a","v","i","g","a","t","o","r",".","c","l","i","p","b","o","a","r","d">>, <<"c","l","i","p","b","o","a","r","d","-","r","e","a","d">>, <<"c","l","i","p","b","o","a","r","d","-","w","r","i","t","e">> >>,
     status |-> [baseline |-> Str("low"),
                 support |-> [chrome |-> Bool(TRUE), firefox |-> Bool(TRUE), safari |-> Bool(TRUE), edge |-> Bool(TRUE)]]],
    [key |-> "api.elementinternals", id |-> "api.elementinternals",
     title |-> <<"E","l","e","m","e","n","t","I","n","t","e","r","n","a","l","s"," ","(","C","u","s","t","o","m"," ","E","l","e","m","e","n","t","s",")">>,
     aliases |-> << <<"e","l","e","m","e","n","t"," ","i","n","t","e","r","n","a","l","s">>, <<"f","o","r","m","-","a","s","s","o","c","i","a","t","e","d"," ","c","u","s","t","o","m"," ","e","l","e","m","e","n","t","s">> >>,
     status |-> [baseline |-> Str("low"),
                 support |-> [chrome |-> Bool(TRUE), firefox |-> Bool(FALSE), safari |-> Bool(TRUE), edge |-> Bool(TRUE)]]],
    [key |-> "api.resize-observer", id |-> "api.resize-observer",
     title |-> <<"R","e","s","i","z","e","O","b","s","e","r","v","e","r">>,
     aliases |-> << <<"r","e","s","i","z","e","o","b","s","e","r","v","e","r">> >>,
     status |-> [baseline |-> Bool(TRUE),
                 support |-> [chrome |-> Bool(TRUE), firefox |-> Bool(TRUE), safari |-> Bool(TRUE), edge |-> Bool(TRUE)]]],
    [key |-> "api.webcodecs", id |-> "api.webcodecs",
     title |-> <<"W","e","b","C","o","d","e","c","s">>,
     aliases |-> << <<"w","e","b"," ","c","o","d","e","c","s">> >>,
     status |-> [baseline |-> Str("low"),
                 support |-> [chrome |-> Bool(TRUE), firefox |-> Bool(FALSE), safari |-> Bool(TRUE), edge |-> Bool(TRUE)]]],
    [key |-> "api.webgpu", id |-> "api.webgpu",
     title |-> <<"W","e","b","G","P","U">>,
     aliases |-> << <<"w","g","p","u">>, <<"g","p","u">> >>,
     status |-> [baseline |-> Str("low"),
                 support |-> [chrome |-> Bool(TRUE), firefox |-> Bool(FALSE), safari |-> Bool(TRUE), edge |-> Bool(TRUE)]]],
    [key |-> "api.offscreen-canvas", id |-> "api.offscreen-canvas",
     title |-> <<"O","f","f","s","c","r","e","e","n","C","a","n","v","a","s">>,
     aliases |-> << <<"o","f","f","s","c","r","e","e","n"," ","c","a","n","v","a","s">>, <<"t","r","a","n","s","f","e","r","C","o","n","t","r","o","l","T","o","O","f","f","s","c","r","e","e","n">> >>,
     status |-> [baseline |-> Str("low"),
                 support |-> [chrome |-> Bool(TRUE), firefox |-> Bool(TRUE), safari |-> Bool(FALSE), edge |-> Bool(TRUE)]]]
  >>

\* Legacy minimal mock, the fallback for ids missing from the curated set
mockFeatures ==
  <<
    [key |-> "css.properties.display",
     status |-> [baseline |-> Bool(TRUE),
                 support |-> [chrome |-> Str("1"), firefox |-> Str("1"), safari |-> Str("1"), edge |-> Str("12")]]],
    [key |-> "css.properties.grid",
     status |-> [baseline |-> Bool(TRUE),
                 support |-> [chrome |-> Str("57"), firefox |-> Str("52"), safari |-> Str("10.1"), edge |-> Str("16")]]],
    [key |-> "css.properties.flexbox",
     status |-> [baseline |-> Bool(TRUE),
                 support |-> [chrome |-> Str("29"), firefox |-> Str("28"), safari |-> Str("9"), edge |-> Str("12")]]],
    [key |-> "css.properties.container-query",
     status |-> [baseline |-> Bool(FALSE),
                 support |-> [chrome |-> Str("105"), firefox |-> Str("110"), safari |-> Str("16"), edge |-> Str("105")]]],
    [key |-> "css.properties.aspect-ratio",
     status |-> [baseline |-> Str("low"),
                 support |-> [chrome |-> Str("88"), firefox |-> Str("89"), safari |-> Str("15"), edge |-> Str("88")]]],
    [key |-> "css.media.prefers-color-scheme",
     status |-> [baseline |-> Bool(TRUE),
                 support |-> [chrome |-> Str("76"), firefox |-> Str("67"), safari |-> Str("12.1"), edge |-> Str("79")]]],
    [key |-> "css.properties.color-scheme",
     status |-> [baseline |-> Bool(TRUE),
                 support |-> [chrome |-> Str("81"), firefox |-> Str("96"), safari |-> Str("15"), edge |-> Str("81")]]],
    [key |-> "css.custom-properties",
     status |-> [baseline |-> Bool(TRUE),
                 support |-> [chrome |-> Str("49"), firefox |-> Str("31"), safari |-> Str("9.1"), edge |-> Str("15")]]]
  >>

\* Manual alias table
manualAlias ==
  <<
    <<<<"d","a","r","k"," ","m","o","d","e">>, "css.media.prefers-color-scheme">>,
    <<<<"d","a","r","k"," ","m","o","d","e","/","t","h","e","m","i","n","g">>, "css.media.prefers-color-scheme">>,
    <<<<"t","h","e","m","i","n","g">>, "css.media.prefers-color-scheme">>,
    <<<<"t","h","e","m","e">>, "css.media.prefers-color-scheme">>,
    <<<<"p","r","e","f","e","r","s"," ","c","o","l","o","r"," ","s","c","h","e","m","e">>, "css.media.prefers-color-scheme">>,
    <<<<"p","r","e","f","e","r","s","-","c","o","l","o","r","-","s","c","h","e","m","e">>, "css.media.prefers-color-scheme">>,
    <<<<"c","o","l","o","r"," ","s","c","h","e","m","e">>, "css.properties.color-scheme">>,
    <<<<"c","o","l","o","r","-","s","c","h","e","m","e">>, "css.properties.color-scheme">>,
    <<<<"c","s","s"," ","v","a","r","i","a","b","l","e","s">>, "css.custom-properties">>,
    <<<<"v","a","r","i","a","b","l","e","s">>, "css.custom-properties">>,
    <<<<"c","u","s","t","o","m"," ","p","r","o","p","e","r","t","i","e","s">>, "css.custom-properties">>,
    <<<<"c","s","s"," ","c","u","s","t","o","m"," ","p","r","o","p","e","r","t","i","e","s">>, "css.custom-properties">>,
    <<<<"f","l","e","x","b","o","x">>, "css.properties.flexbox">>,
    <<<<"f","l","e","x","b","o","x"," ","l","a","y","o","u","t">>, "css.properties.flexbox">>,
    <<<<"c","s","s"," ","f","l","e","x","b","o","x">>, "css.properties.flexbox">>,
    <<<<"f","l","e","x"," ","l","a","y","o","u","t">>, "css.properties.flexbox">>,
    <<<<"g","r","i","d">>, "css.properties.grid">>,
    <<<<"g","r","i","d"," ","l","a","y","o","u","t">>, "css.properties.grid">>,
    <<<<"c","s","s"," ","g","r","i","d">>, "css.properties.grid">>,
    <<<<"c","s","s"," ","g","r","i","d"," ","l","a","y","o","u","t">>, "css.properties.grid">>,
    <<<<"f","e","t","c","h">>, "api.fetch">>,
    <<<<"w","e","b","s","o","c","k","e","t">>, "api.websocket">>,
    <<<<"w","e","b","s","o","c","k","e","t","s">>, "api.websocket">>,
    <<<<"a","b","o","r","t","c","o","n","t","r","o","l","l","e","r">>, "api.abort-controller">>,
    <<<<"s","e","r","v","i","c","e"," ","w","o","r","k","e","r">>, "api.service-worker">>,
    <<<<"w","e","b"," ","a","p","p"," ","m","a","n","i","f","e","s","t">>, "api.web-app-manifest">>,
    <<<<"m","a","n","i","f","e","s","t">>, "api.web-app-manifest">>,
    <<<<"w","e","b"," ","s","h","a","r","e">>, "api.web-share">>,
    <<<<"i","n","d","e","x","e","d","d","b">>, "api.indexeddb">>,
    <<<<"i","d","b">>, "api.indexeddb">>,
    <<<<"c","a","c","h","e","s">>, "api.cache-storage">>,
    <<<<"c","s","p">>, "http.csp">>,
    <<<<"r","e","f","e","r","r","e","r"," ","p","o","l","i","c","y">>, "http.referrer-policy">>,
    <<<<"w","e","b","a","u","t","h","n">>, "api.webauthn">>,
    <<<<"o","p","t","i","o","n","a","l"," ","c","h","a","i","n","i","n","g">>, "js.syntax.optional-chaining">>,
    <<<<"i","m","p","o","r","t"," ","m","a","p","s">>, "js.import-maps">>,
    <<<<"v","i","e","w"," ","t","r","a","n","s","i","t","i","o","n","s">>, "api.view-transitions">>,
    <<<<"n","a","v","i","g","a","t","i","o","n"," ","a","p","i">>, "api.navigation">>,
    <<<<"s","h","a","r","e","d","a","r","r","a","y","b","u","f","f","e","r">>, "js.sharedarraybuffer">>,
    <<<<"c","o","o","p">>, "http.headers.coop">>,
    <<<<"c","o","e","p">>, "http.headers.coep">>,
    <<<<"c","o","r","p">>, "http.headers.corp">>,
    <<<<"c","l","i","p","b","o","a","r","d">>, "api.clipboard">>,
    <<<<"c","l","i","p","b","o","a","r","d"," ","a","p","i">>, "api.clipboard">>,
    <<<<"n","a","v","i","g","a","t","o","r",".","c","l","i","p","b","o","a","r","d">>, "api.clipboard">>,
    <<<<"e","l","e","m","e","n","t"," ","i","n","t","e","r","n","a","l","s">>, "api.elementinternals">>,
    <<<<"e","l","e","m","e","n","t","i","n","t","e","r","n","a","l","s">>, "api.elementinternals">>,
    <<<<"r","e","s","i","z","e","o","b","s","e","r","v","e","r">>, "api.resize-observer">>,
    <<<<"r","e","s","i","z","e"," ","o","b","s","e","r","v","e","r">>, "api.resize-observer">>,
    <<<<"w","e","b","c","o","d","e","c","s">>, "api.webcodecs">>,
    <<<<"w","e","b"," ","c","o","d","e","c","s">>, "api.webcodecs">>,
    <<<<"w","e","b","g","p","u">>, "api.webgpu">>,
    <<<<"w","g","p","u">>, "api.webgpu">>,
    <<<<"g","p","u">>, "api.webgpu">>,
    <<<<"o","f","f","s","c","r","e","e","n","c","a","n","v","a","s">>, "api.offscreen-canvas">>,
    <<<<"o","f","f","s","c","r","e","e","n"," ","c","a","n","v","a","s">>, "api.offscreen-canvas">>
  >>

\* geminiService.ts: pool of demo features to rotate through
demoPool ==
  <<
    [featureId |-> "css.media.prefers-color-scheme", name |-> <<"D","a","r","k"," ","M","o","d","e"," ","(","p","r","e","f","e","r","s","-","c","o","l","o","r","-","s","c","h","e","m","e",")">>],
    [featureId |-> "css.properties.color-scheme", name |-> <<"C","S","S"," ","c","o","l","o","r","-","s","c","h","e","m","e">>],
    [featureId |-> "css.custom-properties", name |-> <<"C","S","S"," ","V","a","r","i","a","b","l","e","s"," ","(","C","u","s","t","o","m"," ","P","r","o","p","e","r","t","i","e","s",")">>],
    [featureId |-> "css.properties.grid", name |-> <<"C","S","S"," ","G","r","i","d"," ","L","a","y","o","u","t">>],
    [featureId |-> "css.properties.flexbox", name |-> <<"C","S","S"," ","F","l","e","x","b","o","x">>],
    [featureId |-> "css.properties.container-query", name |-> <<"C","S","S"," ","C","o","n","t","a","i","n","e","r"," ","Q","u","e","r","i","e","s">>],
    [featureId |-> "css.properties.aspect-ratio", name |-> <<"C","S","S"," ","A","s","p","e","c","t"," ","R","a","t","i","o">>],
    [featureId |-> "css.properties.display", name |-> <<"C","S","S"," ","D","i","s","p","l","a","y"," ","P","r","o","p","e","r","t","y">>],
    [featureId |-> "js.syntax.optional-chaining", name |-> <<"O","p","t","i","o","n","a","l"," ","c","h","a","i","n","i","n","g"," ","(","?",".",")">>],
    [featureId |-> "js.syntax.top-level-await", name |-> <<"T","o","p","-","l","e","v","e","l"," ","a","w","a","i","t">>],
    [featureId |-> "api.fetch", name |-> <<"F","e","t","c","h"," ","A","P","I">>],
    [featureId |-> "api.service-worker", name |-> <<"S","e","r","v","i","c","e"," ","W","o","r","k","e","r">>],
    [featureId |-> "html.elements.dialog", name |-> <<"<","d","i","a","l","o","g",">"," ","e","l","e","m","e","n","t">>],
    [featureId |-> "css.selectors.has", name |-> <<":","h","a","s","(",")"," ","s","e","l","e","c","t","o","r">>],
    [featureId |-> "api.view-transitions", name |-> <<"V","i","e","w"," ","T","r","a","n","s","i","t","i","o","n","s"," ","A","P","I">>],
    [featureId |-> "css.functions.clamp", name |-> <<"C","S","S"," ","c","l","a","m","p","(",")">>]
  >>

(***************************************************************************)
(* The AI's mentions.  A mention is [name, featureId, baseline]; featureId *)
(* is Undefined when the AI gave none.                                     *)
(***************************************************************************)
Mention(name, featureId) ==
  [name |-> name, featureId |-> featureId, baseline |-> NoBaseline]

\* What the AI may say about a feature.
AIMentions ==
  { Mention(<<"o","p","t","i","o","n","a","l"," ","c","h","a","i","n","i","n","g">>, Undefined),
    Mention(<<"O","p","t","i","o","n","a","l"," ","c","h","a","i","n","i","n","g"," ","(","?",".",")">>, Undefined),
    Mention(<<"A","P","I">>, Undefined),
    Mention(<<"F","e","t","c","h"," ","A","P","I">>, "api.fetch"),
    Mention(<<"G","r","i","d">>, "bogus.id"),
    Mention(<<"d","o","e","s","-","n","o","t","-","e","x","i","s","t","-","x","y","z">>, Undefined),
    Mention(<<"C","S","S">>, Undefined) }

AINames == {m.name : m \in AIMentions}

(***************************************************************************)
(* webFeaturesService.ts                                                   *)
(***************************************************************************)
BROWSER_SUPPORT_MAP ==
  <<"chrome", "chrome_android", "edge", "firefox", "firefox_android",
    "safari", "safari_ios">>

BrowserKeys == {BROWSER_SUPPORT_MAP[i] : i \in 1..Len(BROWSER_SUPPORT_MAP)}

\* normalize: lowercase, drop everything outside [a-z0-9\s-], collapse
\* whitespace, trim
normalize(s) ==
  trim(collapseWhitespace(
    SelectSeq(toLowerCase(s),
              LAMBDA c : c \in LowerLetters \/ c \in Digits
                         \/ c \in Whitespace \/ c = "-")))

\* The assignments out[normalize(rec.title)] = rec.id and, for each alias a,
\* out[normalize(a)] = rec.id that one dataset record makes, in order.
recordAssignments(rec) ==
  <<<<normalize(rec.title), rec.id>>>>
  \o [k \in 1..Len(rec.aliases) |-> <<normalize(rec.aliases[k]), rec.id>>]

\* for (const [id, rec] of Object.entries(WEB_FEATURES_DATA)), from record k on
RECURSIVE datasetAssignments(_, _)
datasetAssignments(records, k) ==
  IF k > Len(records) THEN <<>>
  ELSE recordAssignments(records[k]) \o datasetAssignments(records, k + 1)

\* Every assignment to `out`, in execution order: the manual table spread
\* first (keys as written), then the dataset records.
aliasAssignments == manualAlias \o datasetAssignments(WEB_FEATURES_DATA, 1)

\* The positions in a list of assignments at which a key is assigned for the
\* first time: an insertion-ordered object keeps a key at that position.
firstPositions(assignments) ==
  SelectSeq([i \in 1..Len(assignments) |-> i],
            LAMBDA i : \A k \in 1..(i - 1) :
                         assignments[k][1] # assignments[i][1])

firstAssignments == firstPositions(aliasAssignments)

\* The value a key holds in the end: that of its last assignment.
lastAssigned(assignments, key) ==
  assignments[CHOOSE i \in 1..Len(assignments) :
                /\ assignments[i][1] = key
                /\ \A k \in (i + 1)..Len(assignments) :
                     assignments[k][1] # key][2]

\* Object.entries of the object the assignments build: each key at the
\* position of its first assignment, with the value of its last assignment.
entriesOf(assignments, first) ==
  [p \in 1..Len(first) |->
     <<assignments[first[p]][1],
       lastAssigned(assignments, assignments[first[p]][1])>>]

\* The alias index, built once at module load.
aliasIndex == entriesOf(aliasAssignments, firstAssignments)

\* Variant: the exact lookup is skipped.
resolveInBySubstringOnly(index, n) ==
  LET fuzzy == {i \in 1..Len(index) : includes(n, index[i][1]) \/ includes(index[i][1], n)}
  IN  IF fuzzy # {} THEN index[CHOOSE i \in fuzzy : \A k \in fuzzy : i <= k][2]
      ELSE Undefined

\* Variant: the last matching entry wins the substring pass.
resolveInLastMatch(index, n) ==
  LET exact == {i \in 1..Len(index) : index[i][1] = n}
      fuzzy == {i \in 1..Len(index) : includes(n, index[i][1]) \/ includes(index[i][1], n)}
  IN  IF exact # {} THEN index[CHOOSE i \in exact : TRUE][2]
      ELSE IF fuzzy # {} THEN index[CHOOSE i \in fuzzy : \A k \in fuzzy : i >= k][2]
      ELSE Undefined

\* The lookup in an index of a normalized name n: the exact key if present,
\* else the first entry, in Object.entries order, whose alias contains n or
\* is contained in n, else undefined.
resolveIn(index, n) ==
  LET exact == {i \in 1..Len(index) : index[i][1] = n}
      fuzzy == {i \in 1..Len(index) :
                   includes(n, index[i][1]) \/ includes(index[i][1], n)}
  IN  IF exact # {} THEN index[CHOOSE i \in exact : TRUE][2]
      ELSE IF fuzzy # {}
        THEN index[CHOOSE i \in fuzzy : \A k \in fuzzy : i <= k][2]
      ELSE Undefined

resolveFeatureIdByName(name) == resolveIn(aliasIndex, normalize(name))

\* WEB_FEATURES_DATA[featureId] || mockFeatures[featureId]
HasKey(table, featureId) == \E i \in 1..Len(table) : table[i].key = featureId
ByKey(table, featureId) == table[CHOOSE i \in 1..Len(table) : table[i].key = featureId]

featureOf(featureId) ==
  IF HasKey(WEB_FEATURES_DATA, featureId) THEN ByKey(WEB_FEATURES_DATA, featureId)
  ELSE ByKey(mockFeatures, featureId)

\* Variant: only the legacy mock table is consulted.
hasFeatureMockOnly(featureId) == HasKey(mockFeatures, featureId)

hasFeature(featureId) ==
  HasKey(WEB_FEATURES_DATA, featureId) \/ HasKey(mockFeatures, featureId)

\* Variant: the status is taken from the truthiness of the baseline field.
baselineOfTruthy(baselineStatus) ==
  IF baselineStatus.t = "boolean"
    THEN (IF baselineStatus.b THEN "high" ELSE "low")
  ELSE IF baselineStatus.t = "string"
    THEN (IF baselineStatus.s # "" THEN "high" ELSE "low")
  ELSE "unknown"

\* status from feature.status.baseline
baselineOf(baselineStatus) ==
  IF baselineStatus.t = "boolean"
    THEN (IF baselineStatus.b THEN "high" ELSE "low")
  ELSE IF baselineStatus.t = "string" THEN baselineStatus.s
  ELSE "unknown"

\* support[browser] from feature.status.support[browser]
supportOf(supportMap, browser) ==
  IF browser \notin DOMAIN supportMap THEN FALSE
  ELSE LET v == supportMap[browser]
       IN  IF v.t = "string" \/ v.t = "number" THEN TRUE
           ELSE IF v.t = "boolean" THEN v.b
           ELSE FALSE

\* The value returned for a feature record that was found.
statusOf(feature) ==
  IF "status" \notin DOMAIN feature THEN NoBaseline
  ELSE [defined  |-> TRUE,
        status   |-> baselineOf(feature.status.baseline),
        support  |-> [b \in BrowserKeys |->
                        supportOf(feature.status.support, b)],
        versions |-> [b \in BrowserKeys \cap DOMAIN feature.status.support
                        |-> feature.status.support[b]],
        id       |-> IF "id" \in DOMAIN feature THEN feature.id
                     ELSE Undefined]

\* Every alias string the sources declare, with the id declaring it:
\* manual table entries, dataset titles and dataset aliases.
declaredBy(records) ==
  {<<records[i].title, records[i].id>> : i \in 1..Len(records)}
  \cup UNION {{<<records[i].aliases[k], records[i].id>> :
                 k \in 1..Len(records[i].aliases)} :
              i \in 1..Len(records)}

DeclaredAliases ==
  {manualAlias[i] : i \in 1..Len(manualAlias)} \cup declaredBy(WEB_FEATURES_DATA)

DatasetIds == {WEB_FEATURES_DATA[i].key : i \in 1..Len(WEB_FEATURES_DATA)}
MockIds == {mockFeatures[i].key : i \in 1..Len(mockFeatures)}

\* Names that no source declares.
UndeclaredNames ==
  { <<"d","o","e","s","-","n","o","t","-","e","x","i","s","t","-","x","y","z">>,
    <<"q","q","q">>,
    <<"W","e","b","X","R">>,
    <<"C","S","S"," ","G","r","i","d"," ","(","s","u","b","g","r","i","d",")">>,
    <<>> }

\* Ids that no table has.
UnknownIds == {"css.properties.subgrid", "bogus.id", "", Undefined}

LookupNames == {d[1] : d \in DeclaredAliases} \cup UndeclaredNames
LookupIds == DatasetIds \cup MockIds \cup UnknownIds

\* getFeatureBaselineStatus tabulated once over the ids it is called with;
\* a call with a tabulated id is answered from the table.
baselineStatuses ==
  [id \in LookupIds |->
     IF ~hasFeature(id) THEN NoBaseline ELSE statusOf(featureOf(id))]

getFeatureBaselineStatus(featureId) ==
  IF featureId \in DOMAIN baselineStatuses THEN baselineStatuses[featureId]
  ELSE IF ~hasFeature(featureId) THEN NoBaseline
  ELSE statusOf(featureOf(featureId))

\* resolveFeatureIdByName tabulated once over the names it is called with
\* (the AI's names and the lookup arguments); a call with a tabulated name
\* is answered from the table.
resolvedIds == [n \in AINames \cup LookupNames |-> resolveFeatureIdByName(n)]

resolveName(name) ==
  IF name \in DOMAIN resolvedIds THEN resolvedIds[name]
  ELSE resolveFeatureIdByName(name)

\* if (!id) return undefined; return getFeatureBaselineStatus(id)
baselineOfResolved(id) ==
  IF ~Truthy(id) THEN NoBaseline ELSE getFeatureBaselineStatus(id)

getFeatureBaselineByName(featureName) ==
  baselineOfResolved(resolveName(featureName))

(***************************************************************************)
(* Lookup calls: a caller applies one of the three exported lookup         *)
(* functions to an argument and holds the returned value.                  *)
(***************************************************************************)
VARIABLES call

NoCall ==
  [fn |-> "none", name |-> <<>>, featureId |-> Undefined,
   id |-> Undefined, baseline |-> NoBaseline]

(***************************************************************************)
(* App.tsx and ChatSidebar.tsx: the component state and the two kinds of   *)
(* AI request (analysis, chat), each an asynchronous handler whose awaits  *)
(* are the points where other handlers can run.                            *)
(***************************************************************************)
VARIABLES
  apiKey,               \* process.env.API_KEY is set (client bundle)
  selectedFile,         \* App state: a file is selected
  fileOf,               \* which file is selected, analysed and shown as a plan
  previewUrl,           \* App state: a preview URL exists
  implementationPlan,   \* App state
  isLoading,            \* App state
  error,                \* App state
  analyze,              \* the running handleAnalyze / analyzeUIDesign call
  finished,             \* what the last finished handleAnalyze left behind
  chatIsLoading,        \* ChatSidebar state isLoading
  inputValue,           \* ChatSidebar state: the input holds non-blank text
  messages,             \* ChatSidebar state: roles of the messages shown
  chat,                 \* the running handleSendMessage call
  isSidebarOpen,        \* App state
  inFlight              \* provider requests issued and not yet settled

appVars ==
  <<apiKey, selectedFile, fileOf, previewUrl, implementationPlan, isLoading,
    error, analyze, finished, chatIsLoading, inputValue, messages, chat,
    isSidebarOpen, inFlight>>

EmptyPlan == <<>>
AnalysedPlan == <<"section">>

NoAnalyze ==
  [step |-> "idle", thrown |-> "", result |-> EmptyPlan,
   fileReads |-> 0, providerCalls |-> 0, outcome |-> "none"]

\* history: the previousMessages argument of chatAboutImplementation
NoChat == [step |-> "idle", thrown |-> "", providerCalls |-> 0, history |-> <<>>]

NotFinished ==
  [done |-> FALSE, outcome |-> "none", thrown |-> "", providerCalls |-> 0,
   fileReads |-> 0, implementationPlan |-> EmptyPlan, error |-> ""]

\* No file is selected, none is being analysed and no plan is shown.
NoFile == 0
NoFiles == [selected |-> NoFile, request |-> NoFile, plan |-> NoFile]

\* The state after the first render of App, with the key set or not.
AppStart(key) ==
  /\ apiKey = key
  /\ selectedFile = FALSE
  /\ fileOf = NoFiles
  /\ previewUrl = FALSE
  /\ implementationPlan = EmptyPlan
  /\ isLoading = FALSE
  /\ error = ""
  /\ analyze = NoAnalyze
  /\ finished = NotFinished
  /\ chatIsLoading = FALSE
  /\ inputValue = FALSE
  /\ messages = <<>>
  /\ chat = NoChat
  /\ isSidebarOpen = FALSE
  /\ inFlight = [analysis |-> 0, chat |-> 0]

(***************************************************************************)
(* codeGenerationService.ts, generateFallback, and server/index.js, the    *)
(* POST /api/generate-fallback handler it calls through fetch.             *)
(***************************************************************************)
VARIABLES
  fallback,             \* the generateFallback call
  server,               \* the handler of the request, once it reached it
  response              \* the HTTP response on its way to the caller

fallbackVars == <<fallback, server, response>>

NoBody == [json |-> FALSE, value |-> [none |-> TRUE]]
NoResponse == [sent |-> FALSE, ok |-> FALSE, status |-> 0, body |-> NoBody]

NoServer ==
  [step |-> "idle", apiKey |-> FALSE, origin |-> "none", bodyOk |-> TRUE,
   providerCalls |-> 0, failure |-> "none", responses |-> <<>>]

NoResult == [returned |-> FALSE]

\* generateFallback is called where window is defined or not, with an API
\* key in its environment or not; the server has a key or not.
FallbackStart(isBrowser, key, serverKey) ==
  /\ fallback = [step |-> "called", isBrowser |-> isBrowser, apiKey |-> key,
                 providerCalls |-> 0, cause |-> "none", result |-> NoResult]
  /\ server = [NoServer EXCEPT !.apiKey = serverKey]
  /\ response = NoResponse

(***************************************************************************)
(* App.tsx: the theme state, its two effects and localStorage.             *)
(***************************************************************************)
VARIABLES
  theme,                \* App state
  stored,               \* localStorage.theme, Undefined when absent
  prefersDark,          \* matchMedia("(prefers-color-scheme: dark)").matches
  darkClass,            \* documentElement carries the class "dark"
  updates,              \* setTheme calls queued for the next render
  effects,              \* effects of the committed render still to run
  session               \* what the current mount started from

themeVars == <<theme, stored, prefersDark, darkClass, updates, effects, session>>

\* The state after the first render: useState("light"), both effects due,
\* in the order of their declaration.
Mounted(storedValue, dark, before) ==
  /\ theme = "light"
  /\ stored = storedValue
  /\ prefersDark = dark
  /\ darkClass = FALSE
  /\ updates = <<>>
  /\ effects = <<"mount", "theme">>
  /\ session = [storedAtMount |-> storedValue, before |-> before,
                toggled |-> FALSE]

(***************************************************************************)
(* components/AnalysisDisplay.tsx: the props App renders it with and its   *)
(* own state: the active tab and the filters of the feature list.          *)
(***************************************************************************)
VARIABLES
  props,                \* implementationPlan and isLoading as last rendered
  activeTab,            \* index of the shown section, from 0
  filters,              \* selectedGroup, selectedTag and the nine toggles
  effectsDue,           \* the committed render's effects have not run yet
  resets                \* filters the effects turned off since the last event

displayVars == <<props, activeTab, filters, effectsDue, resets>>

\* useState(...) of lines 67-79
NoFilters ==
  [selectedGroup |-> "all", selectedTag |-> "all",
   requireSecure |-> FALSE, requirePermissions |-> FALSE,
   requireIsolation |-> FALSE, onlyExperimental |-> FALSE,
   excludeDeprecated |-> FALSE, onlyBehindFlag |-> FALSE,
   onlyPartialSupport |-> FALSE, onlyHasWPT |-> FALSE,
   onlyNonStandard |-> FALSE]

\* The state after the first render: no plan, nothing selected, the two
\* effects of the mount still to run.
DisplayStart ==
  /\ props = [implementationPlan |-> <<>>, isLoading |-> FALSE]
  /\ activeTab = 0
  /\ filters = NoFilters
  /\ effectsDue = TRUE
  /\ resets = {}

otherVars == <<appVars, fallbackVars, themeVars, displayVars>>

\* The parts of the program a behaviour does not exercise stay as they start.
AppQuiet == AppStart(TRUE)
FallbackQuiet == FallbackStart(TRUE, FALSE, FALSE)
ThemeQuiet == Mounted(Undefined, FALSE, Undefined)
DisplayQuiet == DisplayStart

(***************************************************************************)
(* geminiService.ts, analyzeUIDesign: the deduplication pass over a parsed *)
(* plan.  A section is modelled by its webFeatures list (an absent         *)
(* webFeatures is the empty list, as the code treats it); a mention is     *)
(* [name, featureId, baseline].                                            *)
(***************************************************************************)
\* The names the pass can meet: the AI's and the pool's.
KnownNames == AINames \cup {demoPool[p].name : p \in 1..Len(demoPool)}

\* name.toLowerCase().trim(), tabulated once over the known names
lowerTrimmed == [n \in KnownNames |-> trim(toLowerCase(n))]

normalizedNameOf(name) ==
  IF name \in DOMAIN lowerTrimmed THEN lowerTrimmed[name]
  ELSE trim(toLowerCase(name))

\* The body of the .map callback: attach the baseline and the resolved id.
\* byId = f.featureId ? getFeatureBaselineStatus(f.featureId) : undefined
byIdOf(f) ==
  IF Truthy(f.featureId) THEN getFeatureBaselineStatus(f.featureId)
  ELSE NoBaseline

\* byName = !byId && f.name ? getFeatureBaselineByName(f.name) : undefined
byNameOf(f, byId) ==
  IF ~byId.defined /\ f.name # <<>> THEN getFeatureBaselineByName(f.name)
  ELSE NoBaseline

\* resolvedId = f.featureId || (f.name ? resolveFeatureIdByName(f.name) : undefined)
resolvedIdOf(f) ==
  IF Truthy(f.featureId) THEN f.featureId
  ELSE IF f.name # <<>> THEN resolveName(f.name)
  ELSE Undefined

\* { ...f, featureId: resolvedId || f.featureId, baseline: f.baseline ?? byId ?? byName }
enriched(f, byId, byName, resolvedId) ==
  [name      |-> f.name,
   featureId |-> IF Truthy(resolvedId) THEN resolvedId ELSE f.featureId,
   baseline  |-> IF f.baseline.defined THEN f.baseline
                 ELSE IF byId.defined THEN byId
                 ELSE byName]

enrich(f) == enriched(f, byIdOf(f), byNameOf(f, byIdOf(f)), resolvedIdOf(f))

\* Variant: only "the new name contains a used name" is tested.
isVariationOfForwardOnly(normalizedName, existingName) ==
  \/ includes(normalizedName, existingName)
  \/ includes(stripPunctuation(normalizedName), stripPunctuation(existingName))

\* The four containment tests applied to one already-used name.
isVariationOf(normalizedName, existingName) ==
  \/ includes(normalizedName, existingName)
  \/ includes(existingName, normalizedName)
  \/ includes(stripPunctuation(normalizedName), stripPunctuation(existingName))
  \/ includes(stripPunctuation(existingName), stripPunctuation(normalizedName))

\* isVariationOf tabulated once over the normalized known names
KnownNormalizedNames == {lowerTrimmed[n] : n \in KnownNames}
variations ==
  [pair \in KnownNormalizedNames \X KnownNormalizedNames |->
     isVariationOf(pair[1], pair[2])]

isVariationOfExisting(normalizedName, usedNames) ==
  \E existingName \in usedNames :
    IF <<normalizedName, existingName>> \in DOMAIN variations
      THEN variations[<<normalizedName, existingName>>]
      ELSE isVariationOf(normalizedName, existingName)

\* The verdict of the .filter callback on an enriched mention.
keepsMention(f, usedIds, usedNames) ==
  LET normalizedName == normalizedNameOf(f.name)
  IN  IF Truthy(f.featureId) /\ f.featureId \in usedIds THEN FALSE
      ELSE IF normalizedName \in usedNames
              \/ isVariationOfExisting(normalizedName, usedNames) THEN FALSE
      ELSE TRUE

\* A demo feature is unusable when its id or its exact name is used.
poolEntryUsed(pick, usedIds, usedNames) ==
  \/ pick.featureId \in usedIds
  \/ normalizedNameOf(pick.name) \in usedNames

\* Variant: the top-up loop looks at its starting entry only.
probePoolNoAdvance(sectionIdx, i, attempts, usedIds, usedNames) ==
  demoPool[((sectionIdx + i + attempts) % Len(demoPool)) + 1]

\* Variant: the probe starts at the slot's index, whatever the section.
RECURSIVE probePoolFromSlot(_, _, _, _, _)
probePoolFromSlot(sectionIdx, i, attempts, usedIds, usedNames) ==
  LET pick == demoPool[((i + attempts) % Len(demoPool)) + 1]
  IN  IF poolEntryUsed(pick, usedIds, usedNames) /\ attempts + 1 < Len(demoPool)
        THEN probePoolFromSlot(sectionIdx, i, attempts + 1, usedIds, usedNames)
        ELSE pick

\* do { pick = demoPool[(idx + i + attempts) % length]; attempts++ }
\* while (used(pick) && attempts < length): the entry the loop stops at.
\* sectionIdx is the zero-based index of the forEach callback.
RECURSIVE probePool(_, _, _, _, _)
probePool(sectionIdx, i, attempts, usedIds, usedNames) ==
  LET pick == demoPool[((sectionIdx + i + attempts) % Len(demoPool)) + 1]
  IN  IF poolEntryUsed(pick, usedIds, usedNames) /\ attempts + 1 < Len(demoPool)
        THEN probePool(sectionIdx, i, attempts + 1, usedIds, usedNames)
        ELSE pick

\* The value of attempts when the do-while loop stops: the number of pool
\* entries it looked at.
RECURSIVE probeCount(_, _, _, _, _)
probeCount(sectionIdx, i, attempts, usedIds, usedNames) ==
  IF /\ poolEntryUsed(demoPool[((sectionIdx + i + attempts) % Len(demoPool)) + 1],
                      usedIds, usedNames)
     /\ attempts + 1 < Len(demoPool)
    THEN probeCount(sectionIdx, i, attempts + 1, usedIds, usedNames)
    ELSE attempts + 1

\* needed = Math.max(0, 2 - enrichedExisting.length)
neededFillers(enrichedExisting) ==
  IF 2 - Len(enrichedExisting) > 0 THEN 2 - Len(enrichedExisting) ELSE 0

(***************************************************************************)
(* The pass as a state machine: plan.forEach visits the sections in order; *)
(* within a section the filter visits the AI's mentions in order, then the *)
(* top-up loop fills the slots i = 0 .. needed-1, then the section's list  *)
(* is replaced by the kept mentions followed by the fillers.               *)
(***************************************************************************)
VARIABLES
  aiPlan,               \* the plan as parsed from the AI response
  plan,                 \* the plan being rewritten in place
  idx,                  \* forEach index (zero-based)
  pos,                  \* mentions of section idx already filtered
  fill,                 \* slots of the top-up loop already run (its i)
  enrichedExisting,     \* mentions of section idx kept so far
  fillers,              \* demo features added to section idx so far
  allUsedFeatureIds,
  allUsedFeatureNames,
  decision,             \* the filter's last verdict and what it was based on
  pass,                 \* 1: the pass over the AI's plan, 2: over its own output
  firstOutput,          \* the result of pass 1, once pass 2 has started
  pc

dedupVars ==
  <<aiPlan, plan, idx, pos, fill, enrichedExisting, fillers,
    allUsedFeatureIds, allUsedFeatureNames, decision, pass, firstOutput, pc>>

vars == <<call, dedupVars, otherVars>>

MaxSections == 2
MaxMentions == 2
MaxEmptySections == 10

\* All lists of at most n mentions.
MentionLists(n) == UNION {[1..k -> AIMentions] : k \in 0..n}

\* Nondecreasing cut points that split a list of length len into s sections.
Cuts(len, s) ==
  {b \in [0..s -> 0..len] :
     /\ b[0] = 0
     /\ b[s] = len
     /\ \A k \in 1..s : b[k - 1] <= b[k]}

\* The section lists of the plan that cuts b make of the list flat.
PlanOf(flat, s, b) == [k \in 1..s |-> SubSeq(flat, b[k - 1] + 1, b[k])]

NoDecision ==
  [made |-> FALSE, mention |-> Mention(<<>>, Undefined), kept |-> FALSE,
   usedIds |-> {}, usedNames |-> {}]

existing == plan[idx + 1]

\* The state in which plan.forEach starts on the parsed plan p.
StartPass(p) ==
  /\ aiPlan = p
  /\ plan = p
  /\ idx = 0
  /\ pos = 0
  /\ fill = 0
  /\ enrichedExisting = <<>>
  /\ fillers = <<>>
  /\ allUsedFeatureIds = {}
  /\ allUsedFeatureNames = {}
  /\ decision = NoDecision
  /\ pass = 1
  /\ firstOutput = <<>>
  /\ pc = IF Len(p) = 0 THEN "done" ELSE "section"

\* The AI returns a plan of at most MaxSections sections holding at most
\* MaxMentions mentions in all, or a plan of up to MaxEmptySections
\* sections for which it named no feature.
InitDedup ==
  /\ call = NoCall
  /\ AppQuiet /\ FallbackQuiet /\ ThemeQuiet /\ DisplayQuiet
  /\ \/ \E s \in 1..MaxSections : \E flat \in MentionLists(MaxMentions) :
          \E b \in Cuts(Len(flat), s) : StartPass(PlanOf(flat, s, b))
     \/ \E s \in 0..MaxEmptySections : StartPass([k \in 1..s |-> <<>>])

\* Variant: a kept mention is not marked as used.
FilterMentionNotMarked ==
  /\ pc = "section"
  /\ pos < Len(existing)
  /\ \E f \in {enrich(existing[pos + 1])} :
     \E keep \in {keepsMention(f, allUsedFeatureIds, allUsedFeatureNames)} :
         /\ decision' = [made |-> TRUE, mention |-> f, kept |-> keep,
                         usedIds |-> allUsedFeatureIds,
                         usedNames |-> allUsedFeatureNames]
         /\ IF keep
              THEN /\ UNCHANGED <<allUsedFeatureIds, allUsedFeatureNames>>
                   /\ enrichedExisting' = Append(enrichedExisting, f)
              ELSE UNCHANGED <<allUsedFeatureIds, allUsedFeatureNames,
                               enrichedExisting>>
  /\ pos' = pos + 1
  /\ UNCHANGED <<call, otherVars, aiPlan, plan, idx, fill, fillers, pass, firstOutput, pc>>

\* One element through .map and .filter.
FilterMention ==
  /\ pc = "section"
  /\ pos < Len(existing)
  /\ \E f \in {enrich(existing[pos + 1])} :
     \E keep \in {keepsMention(f, allUsedFeatureIds, allUsedFeatureNames)} :
         /\ decision' = [made |-> TRUE, mention |-> f, kept |-> keep,
                         usedIds |-> allUsedFeatureIds,
                         usedNames |-> allUsedFeatureNames]
         /\ IF keep
              THEN /\ allUsedFeatureIds' =
                        IF Truthy(f.featureId)
                          THEN allUsedFeatureIds \cup {f.featureId}
                          ELSE allUsedFeatureIds
                   /\ allUsedFeatureNames' =
                        allUsedFeatureNames \cup {normalizedNameOf(f.name)}
                   /\ enrichedExisting' = Append(enrichedExisting, f)
              ELSE UNCHANGED <<allUsedFeatureIds, allUsedFeatureNames,
                               enrichedExisting>>
  /\ pos' = pos + 1
  /\ UNCHANGED <<call, otherVars, aiPlan, plan, idx, fill, fillers, pass, firstOutput, pc>>

\* Variant: a chosen filler's name is not added to the used names.
FillSlotNameNotMarked ==
  /\ pc = "section"
  /\ pos = Len(existing)
  /\ fill < neededFillers(enrichedExisting)
  /\ LET pick == probePool(idx, fill, 0, allUsedFeatureIds, allUsedFeatureNames)
         normalizedPickName == normalizedNameOf(pick.name)
     IN  IF /\ pick.featureId \notin allUsedFeatureIds
            /\ normalizedPickName \notin allUsedFeatureNames
           THEN /\ allUsedFeatureIds' = allUsedFeatureIds \cup {pick.featureId}
                /\ allUsedFeatureNames' = allUsedFeatureNames
                /\ fillers' =
                     Append(fillers,
                            [name |-> pick.name, featureId |-> pick.featureId,
                             baseline |-> getFeatureBaselineStatus(pick.featureId)])
           ELSE UNCHANGED <<allUsedFeatureIds, allUsedFeatureNames, fillers>>
  /\ fill' = fill + 1
  /\ UNCHANGED <<call, otherVars, aiPlan, plan, idx, pos, enrichedExisting, decision,
                 pass, firstOutput, pc>>

\* One iteration of the top-up loop.
FillSlot ==
  /\ pc = "section"
  /\ pos = Len(existing)
  /\ fill < neededFillers(enrichedExisting)
  /\ LET pick == probePool(idx, fill, 0, allUsedFeatureIds, allUsedFeatureNames)
         normalizedPickName == normalizedNameOf(pick.name)
     IN  IF /\ pick.featureId \notin allUsedFeatureIds
            /\ normalizedPickName \notin allUsedFeatureNames
           THEN /\ allUsedFeatureIds' = allUsedFeatureIds \cup {pick.featureId}
                /\ allUsedFeatureNames' =
                     allUsedFeatureNames \cup {normalizedPickName}
                /\ fillers' =
                     Append(fillers,
                            [name |-> pick.name, featureId |-> pick.featureId,
                             baseline |-> getFeatureBaselineStatus(pick.featureId)])
           ELSE UNCHANGED <<allUsedFeatureIds, allUsedFeatureNames, fillers>>
  /\ fill' = fill + 1
  /\ UNCHANGED <<call, otherVars, aiPlan, plan, idx, pos, enrichedExisting, decision,
                 pass, firstOutput, pc>>

\* Variant: the pass stops at a section it could not bring to two mentions.
EndSectionStopsWhenShort ==
  /\ pc = "section"
  /\ pos = Len(existing)
  /\ fill = neededFillers(enrichedExisting)
  /\ plan' = [plan EXCEPT ![idx + 1] = enrichedExisting \o fillers]
  /\ idx' = idx + 1
  /\ pos' = 0
  /\ fill' = 0
  /\ enrichedExisting' = <<>>
  /\ fillers' = <<>>
  /\ pc' = IF idx + 1 = Len(plan) \/ Len(enrichedExisting \o fillers) < 2
             THEN "done" ELSE "section"
  /\ UNCHANGED <<call, otherVars, aiPlan, allUsedFeatureIds, allUsedFeatureNames,
                 decision, pass, firstOutput>>

\* section.webFeatures = [...enrichedExisting, ...fillers]; next section.
EndSection ==
  /\ pc = "section"
  /\ pos = Len(existing)
  /\ fill = neededFillers(enrichedExisting)
  /\ plan' = [plan EXCEPT ![idx + 1] = enrichedExisting \o fillers]
  /\ idx' = idx + 1
  /\ pos' = 0
  /\ fill' = 0
  /\ enrichedExisting' = <<>>
  /\ fillers' = <<>>
  /\ pc' = IF idx + 1 = Len(plan) THEN "done" ELSE "section"
  /\ UNCHANGED <<call, otherVars, aiPlan, allUsedFeatureIds, allUsedFeatureNames,
                 decision, pass, firstOutput>>

\* The pass applied to its own output, with fresh used-sets.
Reprocess ==
  /\ pc = "done"
  /\ pass = 1
  /\ Len(plan) > 0
  /\ firstOutput' = plan
  /\ pass' = 2
  /\ idx' = 0
  /\ pos' = 0
  /\ fill' = 0
  /\ enrichedExisting' = <<>>
  /\ fillers' = <<>>
  /\ allUsedFeatureIds' = {}
  /\ allUsedFeatureNames' = {}
  /\ decision' = NoDecision
  /\ pc' = "section"
  /\ UNCHANGED <<call, otherVars, aiPlan, plan>>

(***************************************************************************)
(* Calls of the exported lookup functions                                  *)
(***************************************************************************)
CallResolveFeatureIdByName(name) ==
  /\ call.fn = "none"
  /\ call' = [fn |-> "resolveFeatureIdByName", name |-> name,
           featureId |-> Undefined,
           id |-> resolveName(name), baseline |-> NoBaseline]
  /\ UNCHANGED <<dedupVars, otherVars>>

CallGetFeatureBaselineStatus(featureId) ==
  /\ call.fn = "none"
  /\ call' = [fn |-> "getFeatureBaselineStatus", name |-> <<>>,
           featureId |-> featureId, id |-> Undefined,
           baseline |-> getFeatureBaselineStatus(featureId)]
  /\ UNCHANGED <<dedupVars, otherVars>>

CallGetFeatureBaselineByName(name) ==
  /\ call.fn = "none"
  /\ call' = [fn |-> "getFeatureBaselineByName", name |-> name,
           featureId |-> Undefined, id |-> Undefined,
           baseline |-> getFeatureBaselineByName(name)]
  /\ UNCHANGED <<dedupVars, otherVars>>

\* The caller consumes the returned value.
Return ==
  /\ call.fn # "none"
  /\ call' = NoCall
  /\ UNCHANGED <<dedupVars, otherVars>>

(***************************************************************************)
(* App.tsx, handleFileChange and handleAnalyze; geminiService.ts,          *)
(* analyzeUIDesign as far as its calls and its errors go.                  *)
(***************************************************************************)
MissingKeyMessage == "API_KEY environment variable not set"
ParseFailedMessage ==
  "Failed to parse the analysis from Gemini API. The response was not valid JSON."
RequestFailedMessage == "Failed to get analysis from Gemini API."
ChatFailedMessage == "Failed to get response from AI chat service."
FileTooLargeMessage == "File size exceeds 4MB. Please upload a smaller image."
NoFileMessage == "Please select a file first."

\* What the provider call of an analysis can come to: the request fails, or
\* it answers with text that is not JSON, JSON without a plan, JSON whose
\* plan is not a list of sections, or a plan.
AnalysisOutcomes == {"rejected", "notJson", "noPlan", "badShape", "plan"}

chatVars == <<chatIsLoading, inputValue, messages, chat, isSidebarOpen>>

\* The files the user picks from.
MaxFiles == 2

\* handleFileChange; the file input is never disabled.
HandleFileChange(tooLarge) ==
  /\ IF tooLarge
       THEN /\ error' = FileTooLargeMessage
            /\ selectedFile' = FALSE
            /\ fileOf' = [fileOf EXCEPT !.selected = NoFile]
            /\ previewUrl' = FALSE
            /\ UNCHANGED implementationPlan
       ELSE /\ selectedFile' = TRUE
            /\ \E file \in (1..MaxFiles) \ {fileOf.selected} :
                 fileOf' = [fileOf EXCEPT !.selected = file, !.plan = NoFile]
            /\ previewUrl' = TRUE
            /\ implementationPlan' = EmptyPlan
            /\ error' = ""
  /\ UNCHANGED <<apiKey, isLoading, analyze, finished, chatVars, inFlight>>
  /\ UNCHANGED <<call, dedupVars, fallbackVars, themeVars, displayVars>>

\* Variant: the previous plan is left on screen when an analysis starts.
HandleAnalyzeKeepsPlan ==
  /\ previewUrl /\ ~isLoading
  /\ IF ~selectedFile
       THEN /\ error' = NoFileMessage
            /\ UNCHANGED <<isLoading, implementationPlan, analyze, finished, fileOf>>
       ELSE /\ isLoading' = TRUE
            /\ UNCHANGED implementationPlan
            /\ fileOf' = [fileOf EXCEPT !.request = fileOf.selected]
            /\ error' = ""
            /\ analyze' = [NoAnalyze EXCEPT !.step = "import"]
            /\ finished' = NotFinished
  /\ UNCHANGED <<apiKey, selectedFile, previewUrl, chatVars, inFlight>>
  /\ UNCHANGED <<call, dedupVars, fallbackVars, themeVars, displayVars>>

\* handleAnalyze up to its first await; the button that calls it is
\* disabled while there is no preview or isLoading is set.
HandleAnalyze ==
  /\ previewUrl /\ ~isLoading
  /\ IF ~selectedFile
       THEN /\ error' = NoFileMessage
            /\ UNCHANGED <<isLoading, implementationPlan, analyze, finished, fileOf>>
       ELSE /\ isLoading' = TRUE
            /\ implementationPlan' = EmptyPlan
            /\ fileOf' = [fileOf EXCEPT !.request = fileOf.selected,
                                        !.plan = NoFile]
            /\ error' = ""
            /\ analyze' = [NoAnalyze EXCEPT !.step = "import"]
            /\ finished' = NotFinished
  /\ UNCHANGED <<apiKey, selectedFile, previewUrl, chatVars, inFlight>>
  /\ UNCHANGED <<call, dedupVars, fallbackVars, themeVars, displayVars>>

\* Variant: the image is read before the key is looked at.
AnalyzeUIDesignReadsFirst ==
  /\ analyze.step = "import"
  /\ analyze' = IF ~apiKey
                  THEN [analyze EXCEPT !.step = "catch", !.fileReads = @ + 1,
                                       !.thrown = MissingKeyMessage]
                  ELSE [analyze EXCEPT !.step = "reading"]
  /\ UNCHANGED <<apiKey, selectedFile, fileOf, previewUrl, implementationPlan,
                 isLoading, error, finished, chatVars, inFlight>>
  /\ UNCHANGED <<call, dedupVars, fallbackVars, themeVars, displayVars>>

\* analyzeUIDesign is entered: the key check, before anything else.
AnalyzeUIDesign ==
  /\ analyze.step = "import"
  /\ analyze' = IF ~apiKey
                  THEN [analyze EXCEPT !.step = "catch",
                                       !.thrown = MissingKeyMessage]
                  ELSE [analyze EXCEPT !.step = "reading"]
  /\ UNCHANGED <<apiKey, selectedFile, fileOf, previewUrl, implementationPlan,
                 isLoading, error, finished, chatVars, inFlight>>
  /\ UNCHANGED <<call, dedupVars, fallbackVars, themeVars, displayVars>>

\* fileToGenerativePart has read the image; generateContent is called.
AnalyzeGenerateContent ==
  /\ analyze.step = "reading"
  /\ analyze' = [analyze EXCEPT !.step = "requested", !.fileReads = @ + 1,
                                !.providerCalls = @ + 1]
  /\ inFlight' = [inFlight EXCEPT !.analysis = @ + 1]
  /\ UNCHANGED <<apiKey, selectedFile, fileOf, previewUrl, implementationPlan,
                 isLoading, error, finished, chatVars>>
  /\ UNCHANGED <<call, dedupVars, fallbackVars, themeVars, displayVars>>

\* The error analyzeUIDesign throws, "" when it returns.
analysisError(outcome) ==
  CASE outcome = "notJson" -> ParseFailedMessage
    [] outcome \in {"rejected", "badShape"} -> RequestFailedMessage
    [] OTHER -> ""

\* The provider call settles and analyzeUIDesign runs to its end: parse,
\* the deduplication pass, return; or its catch block.
AnalyzeSettles(outcome) ==
  /\ analyze.step = "requested"
  /\ inFlight' = [inFlight EXCEPT !.analysis = @ - 1]
  /\ analyze' = [analyze EXCEPT
                   !.outcome = outcome,
                   !.step = IF analysisError(outcome) = "" THEN "returned" ELSE "catch",
                   !.thrown = analysisError(outcome),
                   !.result = IF outcome = "plan" THEN AnalysedPlan ELSE EmptyPlan]
  /\ UNCHANGED <<apiKey, selectedFile, fileOf, previewUrl, implementationPlan,
                 isLoading, error, finished, chatVars>>
  /\ UNCHANGED <<call, dedupVars, fallbackVars, themeVars, displayVars>>

\* Variant: isLoading is cleared after a result only, not after an error.
HandleAnalyzeFinishNoFinally ==
  /\ analyze.step \in {"returned", "catch"}
  /\ \E e \in {IF analyze.step = "catch"
                 THEN "Analysis failed: " \o analyze.thrown ELSE error} :
     \E p \in {IF analyze.step = "returned"
                 THEN analyze.result ELSE implementationPlan} :
       /\ error' = e
       /\ implementationPlan' = p
       /\ finished' = [done |-> TRUE, outcome |-> analyze.outcome,
                       thrown |-> analyze.thrown,
                       providerCalls |-> analyze.providerCalls,
                       fileReads |-> analyze.fileReads,
                       implementationPlan |-> p, error |-> e]
  /\ fileOf' = IF analyze.step = "returned"
                 THEN [fileOf EXCEPT !.plan = fileOf.request] ELSE fileOf
  /\ isLoading' = (analyze.step = "catch")
  /\ analyze' = NoAnalyze
  /\ UNCHANGED <<apiKey, selectedFile, previewUrl, chatVars, inFlight>>
  /\ UNCHANGED <<call, dedupVars, fallbackVars, themeVars, displayVars>>

\* handleAnalyze after its awaits: the result or the catch block, finally.
HandleAnalyzeFinish ==
  /\ analyze.step \in {"returned", "catch"}
  /\ \E e \in {IF analyze.step = "catch"
                 THEN "Analysis failed: " \o analyze.thrown ELSE error} :
     \E p \in {IF analyze.step = "returned"
                 THEN analyze.result ELSE implementationPlan} :
       /\ error' = e
       /\ implementationPlan' = p
       /\ finished' = [done |-> TRUE, outcome |-> analyze.outcome,
                       thrown |-> analyze.thrown,
                       providerCalls |-> analyze.providerCalls,
                       fileReads |-> analyze.fileReads,
                       implementationPlan |-> p, error |-> e]
  /\ fileOf' = IF analyze.step = "returned"
                 THEN [fileOf EXCEPT !.plan = fileOf.request] ELSE fileOf
  /\ isLoading' = FALSE
  /\ analyze' = NoAnalyze
  /\ UNCHANGED <<apiKey, selectedFile, previewUrl, chatVars, inFlight>>
  /\ UNCHANGED <<call, dedupVars, fallbackVars, themeVars, displayVars>>

(***************************************************************************)
(* ChatSidebar.tsx, handleSendMessage; geminiService.ts,                   *)
(* chatAboutImplementation as far as its calls and its errors go.          *)
(***************************************************************************)
MaxExchanges == 2

analysisVars ==
  <<selectedFile, fileOf, previewUrl, implementationPlan, isLoading, error, analyze,
    finished>>

\* App.tsx, toggleSidebar: the sidebar's controls can be used while open.
ToggleSidebar ==
  /\ isSidebarOpen' = ~isSidebarOpen
  /\ UNCHANGED <<apiKey, analysisVars, chatIsLoading, inputValue, messages,
                 chat, inFlight>>
  /\ UNCHANGED <<call, dedupVars, fallbackVars, themeVars, displayVars>>

\* The user edits the input, which is disabled while isLoading is set.
ChangeInput(blank) ==
  /\ isSidebarOpen /\ ~chatIsLoading
  /\ inputValue' = ~blank
  /\ UNCHANGED <<apiKey, analysisVars, chatIsLoading, messages, chat,
                 isSidebarOpen, inFlight>>
  /\ UNCHANGED <<call, dedupVars, fallbackVars, themeVars, displayVars>>

\* handleSendMessage up to its first await, called by the send button or
\* by Enter in the input; both are disabled while isLoading is set, the
\* button also while the input is blank.  It returns at once on a blank
\* input or while isLoading; the history it passes on is the messages of
\* the render it was created in.
HandleSendMessage ==
  /\ isSidebarOpen /\ ~chatIsLoading
  /\ Len(messages) < 2 * MaxExchanges
  /\ IF ~inputValue \/ chatIsLoading
       THEN UNCHANGED <<messages, inputValue, chatIsLoading, chat>>
       ELSE /\ messages' = Append(messages, "user")
            /\ inputValue' = FALSE
            /\ chatIsLoading' = TRUE
            /\ chat' = [NoChat EXCEPT !.step = "import", !.history = messages]
  /\ UNCHANGED <<apiKey, analysisVars, isSidebarOpen, inFlight>>
  /\ UNCHANGED <<call, dedupVars, fallbackVars, themeVars, displayVars>>

\* chatAboutImplementation is entered: the key check, then generateContent.
ChatAboutImplementation ==
  /\ chat.step = "import"
  /\ IF ~apiKey
       THEN /\ chat' = [chat EXCEPT !.step = "catch", !.thrown = MissingKeyMessage]
            /\ UNCHANGED inFlight
       ELSE /\ chat' = [chat EXCEPT !.step = "requested", !.providerCalls = @ + 1]
            /\ inFlight' = [inFlight EXCEPT !.chat = @ + 1]
  /\ UNCHANGED <<apiKey, analysisVars, chatIsLoading, inputValue, messages,
                 isSidebarOpen>>
  /\ UNCHANGED <<call, dedupVars, fallbackVars, themeVars, displayVars>>

\* The provider call settles: the reply is returned, or the catch block
\* throws the chat service's error.
ChatSettles(rejected) ==
  /\ chat.step = "requested"
  /\ inFlight' = [inFlight EXCEPT !.chat = @ - 1]
  /\ chat' = IF rejected
               THEN [chat EXCEPT !.step = "catch", !.thrown = ChatFailedMessage]
               ELSE [chat EXCEPT !.step = "returned"]
  /\ UNCHANGED <<apiKey, analysisVars, chatIsLoading, inputValue, messages,
                 isSidebarOpen>>
  /\ UNCHANGED <<call, dedupVars, fallbackVars, themeVars, displayVars>>

\* Variant: after an error nothing is appended.
HandleSendMessageFinishDropsError ==
  /\ chat.step \in {"returned", "catch"}
  /\ messages' = IF chat.step = "returned"
                  THEN Append(messages, "assistant") ELSE messages
  /\ chatIsLoading' = FALSE
  /\ chat' = NoChat
  /\ UNCHANGED <<apiKey, analysisVars, inputValue, isSidebarOpen, inFlight>>
  /\ UNCHANGED <<call, dedupVars, fallbackVars, themeVars, displayVars>>

\* handleSendMessage after its awaits: the reply or the apology, finally.
HandleSendMessageFinish ==
  /\ chat.step \in {"returned", "catch"}
  /\ messages' = Append(messages, IF chat.step = "returned"
                                    THEN "assistant" ELSE "apology")
  /\ chatIsLoading' = FALSE
  /\ chat' = NoChat
  /\ UNCHANGED <<apiKey, analysisVars, inputValue, isSidebarOpen, inFlight>>
  /\ UNCHANGED <<call, dedupVars, fallbackVars, themeVars, displayVars>>

InitApp ==
  /\ \E key \in BOOLEAN : AppStart(key)
  /\ call = NoCall
  /\ StartPass(<<>>)
  /\ FallbackQuiet /\ ThemeQuiet /\ DisplayQuiet

NextApp ==
  \/ \E tooLarge \in BOOLEAN : HandleFileChange(tooLarge)
  \/ HandleAnalyze
  \/ AnalyzeUIDesign
  \/ AnalyzeGenerateContent
  \/ \E outcome \in AnalysisOutcomes : AnalyzeSettles(outcome)
  \/ HandleAnalyzeFinish
  \/ ToggleSidebar
  \/ \E blank \in BOOLEAN : ChangeInput(blank)
  \/ HandleSendMessage
  \/ ChatAboutImplementation
  \/ \E rejected \in BOOLEAN : ChatSettles(rejected)
  \/ HandleSendMessageFinish

(***************************************************************************)
(* codeGenerationService.ts, generateFallback, and server/index.js, the    *)
(* handler of POST /api/generate-fallback.  A JSON value is modelled by    *)
(* the record it parses to; text that is not JSON by the string "notJson". *)
(***************************************************************************)
\* What a generateContent call for a fallback can come to: the request
\* fails, or it answers with text that is not JSON, JSON of another shape,
\* or the JSON object asked for.
FallbackOutcomes == {"rejected", "notJson", "otherJson", "fallbackJson"}

\* String(err) of the error an outcome raises.
StringOfError(failure) ==
  CASE failure = "notJson" -> "SyntaxError: Unexpected token"
    [] failure = "badBody" -> "TypeError: Cannot read properties of undefined"
    [] OTHER -> "Error: request failed"

FallbackJson == [code |-> "generated", bundleSizeImpact |-> "~2 KB", notes |-> "generated"]
OtherJson == [message |-> "generated"]
ErrorObject(message) == [error |-> message]
NoKeyOnServer == "API_KEY or GEMINI_API_KEY not configured on server"

\* Response bodies: res.json's serialisation of a value, or a page.
Json(value) == [json |-> TRUE, value |-> value]
Page == [json |-> FALSE, value |-> [html |-> "page"]]

\* JSON.parse of the text of an outcome that parses.
parsed(outcome) == IF outcome = "fallbackJson" THEN FallbackJson ELSE OtherJson

MockFallback ==
  [code |-> "// Mock fallback", bundleSizeImpact |-> "<1 KB",
   notes |-> "This is a mock fallback returned because server-side AI is not available."]

ErrorPayload(failure) ==
  [code |-> "// Failed to generate fallback: " \o StringOfError(failure),
   bundleSizeImpact |-> "N/A", notes |-> "AI service failed."]

Returns(value, cause) ==
  [fallback EXCEPT !.step = "returned", !.cause = cause,
                   !.result = [returned |-> TRUE, value |-> value]]

\* generateFallback up to its first await: the proxy when in a browser or
\* without a key, the AI service otherwise.
GenerateFallback ==
  /\ fallback.step = "called"
  /\ fallback' = IF fallback.isBrowser \/ ~fallback.apiKey
                   THEN [fallback EXCEPT !.step = "fetching"]
                   ELSE [fallback EXCEPT !.step = "generating",
                                         !.providerCalls = @ + 1]
  /\ UNCHANGED <<server, response>>
  /\ UNCHANGED <<call, dedupVars, appVars, themeVars, displayVars>>

\* fetch rejects: the proxy cannot be reached.
FetchRejects ==
  /\ fallback.step = "fetching"
  /\ fallback' = Returns(MockFallback, "unreachable")
  /\ UNCHANGED <<server, response>>
  /\ UNCHANGED <<call, dedupVars, appVars, themeVars, displayVars>>

\* Something other than server/index.js answers the request: a status that
\* is not OK, or a page that is not JSON.
OtherAnswers(ok) ==
  /\ fallback.step = "fetching"
  /\ fallback' = [fallback EXCEPT !.step = "awaiting"]
  /\ response' = [sent |-> TRUE, ok |-> ok, status |-> IF ok THEN 200 ELSE 404,
                  body |-> Page]
  /\ UNCHANGED server
  /\ UNCHANGED <<call, dedupVars, appVars, themeVars, displayVars>>

\* The request of generateFallback reaches the handler.
ServerReceivesFetch ==
  /\ fallback.step = "fetching"
  /\ server.step \in {"idle", "responded"}
  /\ fallback' = [fallback EXCEPT !.step = "awaiting"]
  /\ server' = [NoServer EXCEPT !.apiKey = server.apiKey, !.step = "received",
                                !.origin = "generateFallback"]
  /\ UNCHANGED response
  /\ UNCHANGED <<call, dedupVars, appVars, themeVars, displayVars>>

\* A request of another client reaches the handler, its body holding an
\* unsupportedBrowsers list or not.
ServerReceivesOther(bodyOk) ==
  /\ server.step \in {"idle", "responded"}
  /\ server' = [NoServer EXCEPT !.apiKey = server.apiKey, !.step = "received",
                                !.origin = "other", !.bodyOk = bodyOk]
  /\ UNCHANGED <<fallback, response>>
  /\ UNCHANGED <<call, dedupVars, appVars, themeVars, displayVars>>

\* res.status(status).json(value): the response is sent, to the caller of
\* generateFallback when the request was its own.
Responds(status, value, failure) ==
  /\ server' = [server EXCEPT !.step = "responded", !.failure = failure,
                  !.responses = Append(@, [status |-> status, body |-> Json(value)])]
  /\ response' = IF server.origin = "generateFallback"
                   THEN [sent |-> TRUE, ok |-> status = 200, status |-> status,
                         body |-> Json(value)]
                   ELSE response

\* Variant: the handler goes on after answering that it has no key.
ServerHandlesGoesOn ==
  /\ server.step = "received"
  /\ IF ~server.apiKey
       THEN /\ server' = [server EXCEPT !.step = "generating",
                            !.providerCalls = @ + 1, !.failure = "noKey",
                            !.responses = Append(@, [status |-> 500,
                                body |-> Json(ErrorObject(NoKeyOnServer))])]
            /\ UNCHANGED response
       ELSE IF ~server.bodyOk
         THEN Responds(500, ErrorObject(StringOfError("badBody")), "badBody")
         ELSE /\ server' = [server EXCEPT !.step = "generating",
                                          !.providerCalls = @ + 1]
              /\ UNCHANGED response
  /\ UNCHANGED fallback
  /\ UNCHANGED <<call, dedupVars, appVars, themeVars, displayVars>>

\* The handler up to its first await: the key check, then the prompt,
\* whose unsupportedBrowsers.join throws when the body has no such list,
\* then generateContent.
ServerHandles ==
  /\ server.step = "received"
  /\ IF ~server.apiKey
       THEN Responds(500, ErrorObject(NoKeyOnServer), "noKey")
       ELSE IF ~server.bodyOk
         THEN Responds(500, ErrorObject(StringOfError("badBody")), "badBody")
         ELSE /\ server' = [server EXCEPT !.step = "generating",
                                          !.providerCalls = @ + 1]
              /\ UNCHANGED response
  /\ UNCHANGED fallback
  /\ UNCHANGED <<call, dedupVars, appVars, themeVars, displayVars>>

\* The handler's generateContent settles: JSON.parse and res.json, or the
\* catch block.
ServerSettles(outcome) ==
  /\ server.step = "generating"
  /\ IF outcome \in {"rejected", "notJson"}
       THEN Responds(500, ErrorObject(StringOfError(outcome)), outcome)
       ELSE Responds(200, parsed(outcome), "none")
  /\ UNCHANGED fallback
  /\ UNCHANGED <<call, dedupVars, appVars, themeVars, displayVars>>

\* What the caller can tell from a response that gave it no fallback.
causeOf(resp) ==
  IF resp.ok THEN "notJsonBody"
  ELSE IF "error" \in DOMAIN resp.body.value THEN resp.body.value.error
  ELSE "notOk"

\* fetch resolves: resp.ok and resp.json(), or the mock.
FetchResolves ==
  /\ fallback.step = "awaiting"
  /\ response.sent
  /\ fallback' = IF response.ok /\ response.body.json
                   THEN Returns(response.body.value, "ok")
                   ELSE Returns(MockFallback, causeOf(response))
  /\ response' = NoResponse
  /\ UNCHANGED server
  /\ UNCHANGED <<call, dedupVars, appVars, themeVars, displayVars>>

\* The AI call of the server-side path settles: JSON.parse and return, or
\* the catch block's error payload.
GenerateSettles(outcome) ==
  /\ fallback.step = "generating"
  /\ fallback' = IF outcome \in {"rejected", "notJson"}
                   THEN Returns(ErrorPayload(outcome), StringOfError(outcome))
                   ELSE Returns(parsed(outcome), "ok")
  /\ UNCHANGED <<server, response>>
  /\ UNCHANGED <<call, dedupVars, appVars, themeVars, displayVars>>

InitFallback ==
  /\ \E isBrowser \in BOOLEAN : \E key \in BOOLEAN : \E serverKey \in BOOLEAN :
       FallbackStart(isBrowser, key, serverKey)
  /\ call = NoCall
  /\ StartPass(<<>>)
  /\ AppQuiet /\ ThemeQuiet /\ DisplayQuiet

NextFallback ==
  \/ GenerateFallback
  \/ FetchRejects
  \/ \E ok \in BOOLEAN : OtherAnswers(ok)
  \/ ServerReceivesFetch
  \/ \E bodyOk \in BOOLEAN : ServerReceivesOther(bodyOk)
  \/ ServerHandles
  \/ \E outcome \in FallbackOutcomes : ServerSettles(outcome)
  \/ FetchResolves
  \/ \E outcome \in FallbackOutcomes : GenerateSettles(outcome)

(***************************************************************************)
(* AnalysisDisplay.tsx: the feature list of a section as it is rendered,   *)
(* with the filters and the sort order of the first render (no group, tag  *)
(* or flag selected; "relevance" keeps the order).                         *)
(***************************************************************************)
\* id = f.featureId || resolveFeatureIdByName(f.name)
displayIdOf(f) ==
  IF Truthy(f.featureId) THEN f.featureId ELSE resolveName(f.name)

\* if (id) baseline = getFeatureBaselineStatus(id) || baseline
displayById(f, id) ==
  IF Truthy(id) /\ hasFeature(id) THEN getFeatureBaselineStatus(id)
  ELSE f.baseline

\* if (!baseline) { b = getFeatureBaselineByName(f.name); if (b) baseline = b }
displayBaseline(f, baseline) ==
  IF baseline.defined THEN baseline ELSE getFeatureBaselineByName(f.name)

buildEnriched(f) ==
  [f EXCEPT !.baseline = displayBaseline(f, displayById(f, displayIdOf(f)))]

\* The first mention of every name, in order.
uniqueFeatures(list) ==
  SelectSeq([i \in 1..Len(list) |-> [at |-> i, f |-> list[i]]],
            LAMBDA e : \A k \in 1..(e.at - 1) : list[k].name # e.f.name)

buildEnrichedList(list) ==
  [i \in 1..Len(uniqueFeatures(list)) |-> buildEnriched(uniqueFeatures(list)[i].f)]

\* filtered: an entry without a baseline is hidden.
getDisplayFeatures(list) ==
  SelectSeq(buildEnrichedList(list), LAMBDA e : e.baseline.defined)

\* part_000, BaselineBadges: the status its badge is given.
badgeStatus(feature) ==
  IF feature.baseline.defined THEN feature.baseline.status
  ELSE IF Truthy(feature.featureId)
    THEN (IF hasFeature(feature.featureId)
            THEN getFeatureBaselineStatus(feature.featureId).status
            ELSE "unknown")
  ELSE (IF getFeatureBaselineByName(feature.name).defined
          THEN getFeatureBaselineByName(feature.name).status
          ELSE "unknown")

(***************************************************************************)
(* AnalysisDisplay.tsx: the filters of the feature list.  The active       *)
(* section's entries are filtered by group, tag and nine toggles; two      *)
(* effects turn a filter off when nothing is left for it.                  *)
(***************************************************************************)
\* What the filters read of a baseline: getFeatureBaselineStatus copies
\* these fields of the dataset record (behindFlag: the object has keys).
Fields(id, group, tags, permissions, flags) ==
  [id |-> id, group |-> group, tags |-> tags, permissions |-> permissions,
   secureContext |-> "secureContext" \in flags,
   requiresIsolation |-> "requiresIsolation" \in flags,
   experimental |-> "experimental" \in flags,
   deprecated |-> "deprecated" \in flags,
   behindFlag |-> "behindFlag" \in flags,
   partialSupport |-> "partialSupport" \in flags,
   hasWPT |-> "hasWPT" \in flags,
   nonStandard |-> "nonStandard" \in flags]

\* WEB_FEATURES_DATA, the fields above of each of its records
featureFields ==
  <<
    Fields("css.properties.display", "css", <<>>, <<>>, {}),
    Fields("css.properties.grid", "css", <<>>, <<>>, {}),
    Fields("css.properties.flexbox", "css", <<>>, <<>>, {}),
    Fields("css.properties.container-query", "css", <<>>, <<>>, {}),
    Fields("css.properties.aspect-ratio", "css", <<>>, <<>>, {}),
    Fields("css.properties.position-sticky", "css", <<>>, <<>>, {}),
    Fields("css.media.prefers-color-scheme", "css", <<>>, <<>>, {}),
    Fields("css.properties.color-scheme", "css", <<>>, <<>>, {}),
    Fields("css.custom-properties", "css", <<>>, <<>>, {}),
    Fields("css.at-rules.media", "css", <<>>, <<>>, {}),
    Fields("css.functions.clamp", "css", <<>>, <<>>, {}),
    Fields("css.selectors.has", "css", <<>>, <<>>, {}),
    Fields("css.selectors.is", "css", <<>>, <<>>, {}),
    Fields("css.selectors.where", "css", <<>>, <<>>, {}),
    Fields("html.elements.img.srcset", "html", <<>>, <<>>, {}),
    Fields("html.elements.img.sizes", "html", <<>>, <<>>, {}),
    Fields("html.elements.dialog", "html", <<>>, <<>>, {}),
    Fields("html.attributes.popover", "html", <<>>, <<>>, {}),
    Fields("js.syntax.optional-chaining", "javascript", <<"syntax", "safety", "es2020">>, <<>>, {}),
    Fields("js.syntax.top-level-await", "javascript", <<>>, <<>>, {}),
    Fields("js.import-maps", "javascript", <<>>, <<>>, {}),
    Fields("api.fetch", "network", <<"http", "network">>, <<>>, {}),
    Fields("api.abort-controller", "network", <<>>, <<>>, {}),
    Fields("api.websocket", "network", <<>>, <<>>, {}),
    Fields("api.indexeddb", "storage", <<>>, <<>>, {}),
    Fields("api.cache-storage", "storage", <<>>, <<>>, {"secureContext"}),
    Fields("api.service-worker", "pwa", <<"offline", "cache", "background">>, <<>>, {"secureContext", "hasWPT"}),
    Fields("api.web-app-manifest", "pwa", <<>>, <<>>, {}),
    Fields("api.web-share", "pwa", <<>>, <<>>, {"secureContext"}),
    Fields("api.file-system-access", "storage", <<"files", "opfs">>, <<"local-files">>, {"secureContext"}),
    Fields("http.csp", "security", <<>>, <<>>, {}),
    Fields("http.referrer-policy", "security", <<>>, <<>>, {}),
    Fields("api.webauthn", "security", <<>>, <<>>, {"secureContext", "hasWPT"}),
    Fields("api.geolocation", "sensors", <<>>, <<"geolocation">>, {"secureContext"}),
    Fields("api.screen-wake-lock", "sensors", <<>>, <<>>, {"secureContext"}),
    Fields("api.mediarecorder", "media", <<>>, <<>>, {}),
    Fields("api.webrtc", "media", <<>>, <<"camera", "microphone">>, {}),
    Fields("api.media-session", "media", <<>>, <<>>, {}),
    Fields("api.view-transitions", "web-apis", <<"animations", "spa">>, <<>>, {}),
    Fields("api.navigation", "web-apis", <<"routing", "spa">>, <<>>, {}),
    Fields("js.sharedarraybuffer", "javascript", <<"concurrency", "performance">>, <<>>, {"requiresIsolation"}),
    Fields("http.headers.coop", "security", <<"isolation", "headers">>, <<>>, {}),
    Fields("http.headers.coep", "security", <<"isolation", "headers">>, <<>>, {}),
    Fields("http.headers.corp", "security", <<"isolation", "headers">>, <<>>, {}),
    Fields("api.clipboard", "web-apis", <<>>, <<"clipboard-read", "clipboard-write">>, {"secureContext", "partialSupport"}),
    Fields("api.elementinternals", "web-apis", <<"web-components", "forms">>, <<>>, {"experimental"}),
    Fields("api.resize-observer", "web-apis", <<"layout", "observer">>, <<>>, {}),
    Fields("api.webcodecs", "media", <<"media", "codec", "encoding">>, <<>>, {"secureContext"}),
    Fields("api.webgpu", "graphics", <<"gpu", "graphics", "compute">>, <<>>, {"secureContext", "experimental"}),
    Fields("api.offscreen-canvas", "graphics", <<"canvas", "workers", "performance">>, <<>>, {})
  >>

\* A record that declares none of them.
NoFields == Fields(Undefined, Undefined, <<>>, <<>>, {})

fieldsOf(table, b) ==
  IF \E i \in 1..Len(table) : table[i].id = b.id
    THEN table[CHOOSE i \in 1..Len(table) : table[i].id = b.id]
  ELSE NoFields

\* e.baseline of the entries of buildEnrichedList, as the filters see it:
\* known is !!b.
baselinesOf(table, entries) ==
  [i \in 1..Len(entries) |->
     IF entries[i].baseline.defined
       THEN [known |-> TRUE, b |-> fieldsOf(table, entries[i].baseline)]
     ELSE [known |-> FALSE, b |-> NoFields]]

\* implementationPlan[activeTab]
hasSection(p, tab) == tab + 1 \in 1..Len(p.implementationPlan)

\* buildEnrichedList(activeTab, implementationPlan[activeTab].webFeatures)
enrichedAt(p, tab) ==
  IF hasSection(p, tab)
    THEN baselinesOf(featureFields, buildEnrichedList(p.implementationPlan[tab + 1]))
  ELSE <<>>

Toggles ==
  {"requireSecure", "requirePermissions", "requireIsolation",
   "onlyExperimental", "excludeDeprecated", "onlyBehindFlag",
   "onlyPartialSupport", "onlyHasWPT", "onlyNonStandard"}

\* The field of toggleCounts each toggle is compared with.
CountKeys ==
  [requireSecure |-> "secure", requirePermissions |-> "permissions",
   requireIsolation |-> "isolation", onlyExperimental |-> "experimental",
   excludeDeprecated |-> "deprecated", onlyBehindFlag |-> "behindFlag",
   onlyPartialSupport |-> "partial", onlyHasWPT |-> "wpt",
   onlyNonStandard |-> "nonStandard"]

\* The toggles that toggleCounts has a field for.
CountedToggles ==
  {"requireSecure", "requirePermissions", "requireIsolation",
   "onlyExperimental", "excludeDeprecated", "onlyBehindFlag",
   "onlyPartialSupport"}

\* The field of the baseline a toggle looks at.
has(b, toggle) ==
  CASE toggle = "requireSecure" -> b.secureContext
    [] toggle = "requirePermissions" -> Len(b.permissions) > 0
    [] toggle = "requireIsolation" -> b.requiresIsolation
    [] toggle = "onlyExperimental" -> b.experimental
    [] toggle = "excludeDeprecated" -> b.deprecated
    [] toggle = "onlyBehindFlag" -> b.behindFlag
    [] toggle = "onlyPartialSupport" -> b.partialSupport
    [] toggle = "onlyHasWPT" -> b.hasWPT
    [] toggle = "onlyNonStandard" -> b.nonStandard

\* An enabled toggle lets the entry through: excludeDeprecated hides the
\* entries that have the field, the others hide those that lack it.
admits(b, f, toggle) ==
  ~f[toggle] \/ (IF toggle = "excludeDeprecated" THEN ~has(b, toggle)
                 ELSE has(b, toggle))

inGroup(b, f) ==
  f.selectedGroup = "all" \/ (Truthy(b.group) /\ b.group = f.selectedGroup)

hasTag(b, f) ==
  f.selectedTag = "all" \/ \E k \in 1..Len(b.tags) : b.tags[k] = f.selectedTag

\* passesBase of toggleCounts
passesBase(e, f) == e.known /\ inGroup(e.b, f) /\ hasTag(e.b, f)

\* toggleCounts: for each counted toggle, the entries that have its field
\* among those the group, the tag and the other six counted toggles admit.
toggleCounts(entries, f) ==
  [key \in {CountKeys[t] : t \in CountedToggles} |->
     Cardinality(
       {i \in 1..Len(entries) :
          \E t \in CountedToggles :
            /\ CountKeys[t] = key
            /\ passesBase(entries[i], f)
            /\ \A other \in CountedToggles \ {t} : admits(entries[i].b, f, other)
            /\ has(entries[i].b, t)})]

\* availableGroups: the groups of the known entries that all nine toggles
\* and the tag admit.
availableGroups(entries, f) ==
  {entries[i].b.group :
     i \in {j \in 1..Len(entries) :
              /\ entries[j].known
              /\ \A t \in Toggles : admits(entries[j].b, f, t)
              /\ hasTag(entries[j].b, f)
              /\ Truthy(entries[j].b.group)}}

\* availableTags: the tags of the entries that the group and the seven
\* counted toggles admit; an unknown entry passes only with none of them on.
availableTags(entries, f) ==
  UNION {{entries[i].b.tags[k] : k \in 1..Len(entries[i].b.tags)} :
           i \in {j \in 1..Len(entries) :
                    IF ~entries[j].known
                      THEN /\ f.selectedGroup = "all"
                           /\ \A t \in CountedToggles : ~f[t]
                    ELSE /\ inGroup(entries[j].b, f)
                         /\ \A t \in CountedToggles : admits(entries[j].b, f, t)}}

\* Every tag a record of the dataset declares.
tagsIn(table) ==
  UNION {{table[i].tags[k] : k \in 1..Len(table[i].tags)} : i \in 1..Len(table)}

Tags == tagsIn(featureFields)

\* Supported group chips (fixed set)
supportedGroups ==
  {"css", "html", "javascript", "pwa", "storage", "network", "media",
   "security", "sensors"}

\* toggleCounts.key === 0 and toggleCounts.key > 0: a field toggleCounts
\* does not have is undefined, which is neither.
isZero(counts, key) == key \in DOMAIN counts /\ counts[key] = 0
isPositive(counts, key) == key \in DOMAIN counts /\ counts[key] > 0

\* Variant: only the toggles are turned off, the group is left selected.
resetByTogglesOnly(entries, f) ==
  {t \in Toggles : f[t] /\ isZero(toggleCounts(entries, f), CountKeys[t])}

\* The filters the two effects of one render turn off: every enabled toggle
\* whose count is 0, and the selected group when it is not available.
resetBy(entries, f) ==
  {t \in Toggles : f[t] /\ isZero(toggleCounts(entries, f), CountKeys[t])}
  \cup (IF f.selectedGroup # "all"
           /\ f.selectedGroup \notin availableGroups(entries, f)
          THEN {"selectedGroup"} ELSE {})

\* The filters once the setState calls of the effects are applied.
afterEffects(f, off) ==
  [k \in DOMAIN f |->
     IF k \notin off THEN f[k]
     ELSE IF k = "selectedGroup" THEN "all" ELSE FALSE]

\* The most sections a delivered plan has.
MaxTabs == 3

\* The plans an analysis can deliver; a mention carries the baseline
\* analyzeUIDesign attached to it.
Shown(featureId) ==
  [name |-> featureOf(featureId).title, featureId |-> featureId,
   baseline |-> getFeatureBaselineStatus(featureId)]

DisplayPlans ==
  { << <<Shown("api.service-worker"), Shown("api.geolocation"),
         Shown("css.properties.grid")>>,
       <<Shown("api.clipboard"), Shown("api.fetch"),
         Mention(<<"q","q","q">>, Undefined)>>,
       <<Shown("js.sharedarraybuffer"), Shown("api.webgpu")>> >>,
    << <<Shown("css.properties.grid"), Shown("api.fetch")>> >> }

\* The filter toolbar and the tab list are rendered.
TabsShown == ~props.isLoading /\ Len(props.implementationPlan) > 0
ToolbarShown == TabsShown /\ hasSection(props, activeTab)

\* handleAnalyze, lines 74-76: the plan is cleared and isLoading set; the
\* button is disabled while isLoading.
AnalysisStarts ==
  /\ ~props.isLoading
  /\ props' = [implementationPlan |-> <<>>, isLoading |-> TRUE]
  /\ effectsDue' = TRUE
  /\ resets' = {}
  /\ UNCHANGED <<activeTab, filters>>
  /\ UNCHANGED <<call, dedupVars, appVars, fallbackVars, themeVars>>

\* handleAnalyze, line 81: setImplementationPlan(result)
ResultArrives(result) ==
  /\ props.isLoading /\ props.implementationPlan = <<>>
  /\ props' = [props EXCEPT !.implementationPlan = result]
  /\ effectsDue' = TRUE
  /\ resets' = {}
  /\ UNCHANGED <<activeTab, filters>>
  /\ UNCHANGED <<call, dedupVars, appVars, fallbackVars, themeVars>>

\* handleAnalyze, line 90: setIsLoading(false), after a result or a failure
LoadingEnds ==
  /\ props.isLoading
  /\ props' = [props EXCEPT !.isLoading = FALSE]
  /\ UNCHANGED <<activeTab, filters, effectsDue, resets>>
  /\ UNCHANGED <<call, dedupVars, appVars, fallbackVars, themeVars>>

\* handleFileChange, line 63: setImplementationPlan([])
FileChanges ==
  /\ props' = [props EXCEPT !.implementationPlan = <<>>]
  /\ effectsDue' = TRUE
  /\ resets' = {}
  /\ UNCHANGED <<activeTab, filters>>
  /\ UNCHANGED <<call, dedupVars, appVars, fallbackVars, themeVars>>

\* onClick of a tab: setActiveTab(index)
SetActiveTab(index) ==
  /\ TabsShown
  /\ index \in 0..(Len(props.implementationPlan) - 1)
  /\ index # activeTab
  /\ activeTab' = index
  /\ effectsDue' = TRUE
  /\ resets' = {}
  /\ UNCHANGED <<props, filters>>
  /\ UNCHANGED <<call, dedupVars, appVars, fallbackVars, themeVars>>

\* onClick of a group chip: "all" and the supported groups that are
\* available have one.
SetSelectedGroup(g) ==
  /\ ToolbarShown
  /\ g \in {"all"} \cup (supportedGroups \cap
                         availableGroups(enrichedAt(props, activeTab), filters))
  /\ g # filters.selectedGroup
  /\ filters' = [filters EXCEPT !.selectedGroup = g]
  /\ effectsDue' = TRUE
  /\ resets' = {}
  /\ UNCHANGED <<props, activeTab>>
  /\ UNCHANGED <<call, dedupVars, appVars, fallbackVars, themeVars>>

\* onClick of a tag chip
SetSelectedTag(id) ==
  /\ ToolbarShown
  /\ id \in {"all"} \cup availableTags(enrichedAt(props, activeTab), filters)
  /\ id # filters.selectedTag
  /\ filters' = [filters EXCEPT !.selectedTag = id]
  /\ effectsDue' = TRUE
  /\ resets' = {}
  /\ UNCHANGED <<props, activeTab>>
  /\ UNCHANGED <<call, dedupVars, appVars, fallbackVars, themeVars>>

\* onChange of a checkbox, rendered when its count is positive
SetToggle(toggle) ==
  /\ ToolbarShown
  /\ isPositive(toggleCounts(enrichedAt(props, activeTab), filters),
                CountKeys[toggle])
  /\ filters' = [filters EXCEPT ![toggle] = ~filters[toggle]]
  /\ effectsDue' = TRUE
  /\ resets' = {}
  /\ UNCHANGED <<props, activeTab>>
  /\ UNCHANGED <<call, dedupVars, appVars, fallbackVars, themeVars>>

\* The two effects of the committed render run on its values; their
\* setState calls are applied by the next render, whose effects run again
\* when a filter changed.
RunEffects ==
  /\ effectsDue
  /\ \E off \in {resetBy(enrichedAt(props, activeTab), filters)} :
       /\ filters' = afterEffects(filters, off)
       /\ effectsDue' = (off # {})
       /\ resets' = resets \cup off
  /\ UNCHANGED <<props, activeTab>>
  /\ UNCHANGED <<call, dedupVars, appVars, fallbackVars, themeVars>>

InitDisplay ==
  /\ DisplayStart
  /\ call = NoCall
  /\ StartPass(<<>>)
  /\ AppQuiet /\ FallbackQuiet /\ ThemeQuiet

NextDisplay ==
  \/ AnalysisStarts
  \/ \E result \in DisplayPlans : ResultArrives(result)
  \/ LoadingEnds
  \/ FileChanges
  \/ \E index \in 0..(MaxTabs - 1) : SetActiveTab(index)
  \/ \E g \in supportedGroups \cup {"all"} : SetSelectedGroup(g)
  \/ \E id \in Tags \cup {"all"} : SetSelectedTag(id)
  \/ \E toggle \in Toggles : SetToggle(toggle)
  \/ RunEffects

(***************************************************************************)
(* App.tsx: theme.  A render commits the queued setTheme calls; its        *)
(* effects run after it and before the next render.                        *)
(***************************************************************************)
MaxQueued == 2

\* What localStorage.theme can hold when the page is first opened.
StoredValues == {Undefined, "dark", "light", "system"}

\* The mount effect: the stored value or, without one, the system
\* preference; setTheme is queued.
MountEffect ==
  /\ effects # <<>> /\ Head(effects) = "mount"
  /\ updates' = Append(updates,
                  IF stored = "dark" \/ (stored = Undefined /\ prefersDark)
                    THEN "dark" ELSE "light")
  /\ effects' = Tail(effects)
  /\ UNCHANGED <<theme, stored, prefersDark, darkClass, session>>
  /\ UNCHANGED <<call, dedupVars, appVars, fallbackVars, displayVars>>

\* Variant: the light theme is applied but not stored.
ThemeEffectStoresDarkOnly ==
  /\ effects # <<>> /\ Head(effects) = "theme"
  /\ darkClass' = (theme = "dark")
  /\ stored' = IF theme = "dark" THEN "dark" ELSE stored
  /\ effects' = Tail(effects)
  /\ UNCHANGED <<theme, prefersDark, updates, session>>
  /\ UNCHANGED <<call, dedupVars, appVars, fallbackVars, displayVars>>

\* The theme effect: the class on the document and the stored value.
ThemeEffect ==
  /\ effects # <<>> /\ Head(effects) = "theme"
  /\ darkClass' = (theme = "dark")
  /\ stored' = IF theme = "dark" THEN "dark" ELSE "light"
  /\ effects' = Tail(effects)
  /\ UNCHANGED <<theme, prefersDark, updates, session>>
  /\ UNCHANGED <<call, dedupVars, appVars, fallbackVars, displayVars>>

\* toggleTheme: setTheme(prev => prev === "light" ? "dark" : "light").
ToggleTheme ==
  /\ Len(updates) < MaxQueued
  /\ updates' = Append(updates, "toggle")
  /\ session' = [session EXCEPT !.toggled = TRUE]
  /\ UNCHANGED <<theme, stored, prefersDark, darkClass, effects>>
  /\ UNCHANGED <<call, dedupVars, appVars, fallbackVars, displayVars>>

RECURSIVE applyUpdates(_, _)
applyUpdates(value, queue) ==
  IF queue = <<>> THEN value
  ELSE applyUpdates(IF Head(queue) = "toggle"
                      THEN (IF value = "light" THEN "dark" ELSE "light")
                      ELSE Head(queue),
                    Tail(queue))

\* The next render: the queued updates are applied; the theme effect is
\* due when theme changed.
Render ==
  /\ effects = <<>> /\ updates # <<>>
  /\ theme' = applyUpdates(theme, updates)
  /\ updates' = <<>>
  /\ effects' = IF theme' # theme THEN <<"theme">> ELSE <<>>
  /\ UNCHANGED <<stored, prefersDark, darkClass, session>>
  /\ UNCHANGED <<call, dedupVars, appVars, fallbackVars, displayVars>>

\* The page is loaded again with the same localStorage: a new document, a
\* new first render.
Reload ==
  /\ effects = <<>> /\ updates = <<>>
  /\ theme' = "light"
  /\ darkClass' = FALSE
  /\ effects' = <<"mount", "theme">>
  /\ session' = [storedAtMount |-> stored, before |-> theme, toggled |-> FALSE]
  /\ UNCHANGED <<stored, prefersDark, updates>>
  /\ UNCHANGED <<call, dedupVars, appVars, fallbackVars, displayVars>>

InitTheme ==
  /\ \E storedValue \in StoredValues : \E dark \in BOOLEAN :
       Mounted(storedValue, dark, Undefined)
  /\ call = NoCall
  /\ StartPass(<<>>)
  /\ AppQuiet /\ FallbackQuiet /\ DisplayQuiet

NextTheme ==
  \/ MountEffect
  \/ ThemeEffect
  \/ ToggleTheme
  \/ Render
  \/ Reload

(***************************************************************************)
(* Properties of the deduplication pass                                    *)
(***************************************************************************)
\* Positions <<s, k>> of the mentions of a plan.
Positions(p) ==
  UNION {{<<s, k>> : k \in 1..Len(p[s])} : s \in 1..Len(p)}

PassDone == pc = "done"

\* The least of a non-empty set of positions.
firstOf(positions) == CHOOSE j \in positions : \A k \in positions : j <= k

\* The section being processed has been filtered and topped up.
SectionComplete ==
  /\ pc = "section"
  /\ pos = Len(existing)
  /\ fill = neededFillers(enrichedExisting)

\* C1: after the pass no featureId and no lowercase-trimmed name occurs in
\* more than one mention of the plan, kept mentions and fillers alike.
C1_NoFeatureTwice ==
  PassDone =>
    \A x, y \in Positions(plan) :
      x # y =>
        /\ plan[x[1]][x[2]].featureId # plan[y[1]][y[2]].featureId
        /\ trim(toLowerCase(plan[x[1]][x[2]].name))
             # trim(toLowerCase(plan[y[1]][y[2]].name))

\* The AI named the same feature in both sections of a two-section plan and
\* the pass has finished.
C1_Witness ==
  /\ PassDone
  /\ pass = 1
  /\ Len(aiPlan) = 2
  /\ Len(aiPlan[1]) = 1
  /\ aiPlan[2] = aiPlan[1]
  /\ Len(plan[1]) = 2
  /\ Len(plan[2]) = 2

\* C2: every distinct feature id that some AI mention resolves to is the
\* featureId of at least one mention of the post-dedup plan.
C2_NoFeatureLost ==
  (PassDone /\ pass = 1) =>
    \A x \in Positions(aiPlan) :
      Truthy(resolvedIdOf(aiPlan[x[1]][x[2]])) =>
        \E y \in Positions(plan) :
          plan[y[1]][y[2]].featureId = resolvedIdOf(aiPlan[x[1]][x[2]])

\* C3: a section whose k kept mentions left the pool with at least 2-k
\* entries unused by id and by name ends with max(k, 2) mentions; with no
\* AI-supplied mention it ends with exactly two, both pool entries.
C3_MinimumFill ==
  SectionComplete =>
    LET k == Len(enrichedExisting)
        idsBefore == allUsedFeatureIds
                       \ {fillers[j].featureId : j \in 1..Len(fillers)}
        namesBefore == allUsedFeatureNames
                         \ {trim(toLowerCase(fillers[j].name)) : j \in 1..Len(fillers)}
        unused == {p \in 1..Len(demoPool) :
                     /\ demoPool[p].featureId \notin idsBefore
                     /\ trim(toLowerCase(demoPool[p].name)) \notin namesBefore}
    IN  /\ (k < 2 /\ Cardinality(unused) >= 2 - k) =>
             Len(enrichedExisting \o fillers) = 2
        /\ k >= 2 => Len(enrichedExisting \o fillers) = k
        /\ (Len(existing) = 0 /\ Cardinality(unused) >= 2) =>
             /\ Len(enrichedExisting) = 0
             /\ Len(fillers) = 2
             /\ \A j \in 1..2 :
                  \E p \in 1..Len(demoPool) :
                    /\ demoPool[p].featureId = fillers[j].featureId
                    /\ demoPool[p].name = fillers[j].name

\* The second section, for which the AI named nothing, has been topped up
\* with two pool entries after the first section used the first two.
C3_Witness ==
  /\ SectionComplete
  /\ pass = 1
  /\ idx = 1
  /\ Len(existing) = 0
  /\ Len(aiPlan[1]) = 0
  /\ Len(fillers) = 2
  /\ fillers[1].featureId = "css.custom-properties"
  /\ fillers[2].featureId = "css.properties.grid"

\* C4: when the AI names the identical feature in every section of a plan,
\* the post-dedup plan holds that feature (a mention of that name, or of the
\* id the name stands for) exactly once, in the first section; every later
\* occurrence is dropped.
C4_IdenticalNameOnce ==
  (PassDone /\ pass = 1) =>
    \A x \in Positions(aiPlan) :
      LET m == aiPlan[x[1]][x[2]]
          X == trim(toLowerCase(m.name))
          inEverySection ==
            \A s \in 1..Len(aiPlan) :
              \E k \in 1..Len(aiPlan[s]) :
                trim(toLowerCase(aiPlan[s][k].name)) = X
          thatFeature ==
            {y \in Positions(plan) :
               \/ trim(toLowerCase(plan[y[1]][y[2]].name)) = X
               \/ /\ Truthy(resolvedIdOf(m))
                  /\ plan[y[1]][y[2]].featureId = resolvedIdOf(m)}
      IN  inEverySection =>
            /\ Cardinality(thatFeature) = 1
            /\ \A y \in thatFeature : y[1] = 1

\* The <<featureId, lowercase-trimmed name>> pairs of a list of mentions.
Features(list) ==
  {<<list[k].featureId, trim(toLowerCase(list[k].name))>> : k \in 1..Len(list)}

\* C5: the pass run again on its own output, with fresh used-sets, returns
\* every section with the same ids and names as before: no mention of the
\* first output is missing and no other filler has come in.
C5_Idempotent ==
  (PassDone /\ pass = 2) =>
    /\ Len(plan) = Len(firstOutput)
    /\ \A s \in 1..Len(plan) :
         /\ Features(plan[s]) = Features(firstOutput[s])
         /\ Len(plan[s]) = Len(firstOutput[s])

\* The second pass has finished on a plan whose first output held a filler
\* that the second pass's filter rejected as a name variation.
C5_Witness ==
  /\ PassDone
  /\ pass = 2
  /\ decision.made
  /\ ~decision.kept
  /\ \E s \in 1..Len(firstOutput) : \E k \in 1..Len(firstOutput[s]) :
       firstOutput[s][k] = decision.mention

\* C10: the filter drops a mention exactly when its resolved id is in
\* usedIds, or its lowercase-trimmed name is in usedNames, or that name and
\* some used name contain one another, raw or with punctuation stripped;
\* "Optional chaining (?.)" after a kept "optional chaining" is dropped.
C10_DropIff ==
  decision.made =>
    LET f == decision.mention
        n == trim(toLowerCase(f.name))
        strip(s) == SelectSeq(s, LAMBDA c : c \in WordChars \/ c \in Whitespace)
        contains(a, b) ==
          \E i \in 0..(Len(a) - Len(b)) : SubSeq(a, i + 1, i + Len(b)) = b
        variation ==
          \E e \in decision.usedNames :
            \/ contains(n, e)
            \/ contains(e, n)
            \/ contains(strip(n), strip(e))
            \/ contains(strip(e), strip(n))
    IN  /\ ~decision.kept <=>
             \/ f.featureId \in decision.usedIds
             \/ n \in decision.usedNames
             \/ variation
        /\ ( /\ n = <<"o","p","t","i","o","n","a","l"," ","c","h","a","i","n","i","n","g"," ","(","?",".",")">>
             /\ <<"o","p","t","i","o","n","a","l"," ","c","h","a","i","n","i","n","g">>
                  \in decision.usedNames )
           => ~decision.kept

\* "Optional chaining (?.)" reaches the filter in the second section after
\* "optional chaining" was kept in the first.
C10_Witness ==
  /\ decision.made
  /\ ~decision.kept
  /\ pass = 1
  /\ idx = 1
  /\ decision.mention.name
       = <<"O","p","t","i","o","n","a","l"," ","c","h","a","i","n","i","n","g"," ","(","?",".",")">>
  /\ <<"o","p","t","i","o","n","a","l"," ","c","h","a","i","n","i","n","g">>
       \in decision.usedNames
  /\ \E k \in 1..Len(plan[1]) :
       plan[1][k].name = <<"o","p","t","i","o","n","a","l"," ","c","h","a","i","n","i","n","g">>

\* C17: a mention whose id and name resolve to nothing keeps an undefined
\* baseline through the pass and is shown in the feature list of its
\* section with the "unknown" badge.
C17_UnresolvedShownUnknown ==
  (PassDone /\ pass = 1) =>
    \A q \in Positions(aiPlan) :
      (/\ aiPlan[q[1]][q[2]].featureId \in UnknownIds
       /\ aiPlan[q[1]][q[2]].name \in UndeclaredNames) =>
        \A j \in 1..Len(plan[q[1]]) :
          plan[q[1]][j].name = aiPlan[q[1]][q[2]].name =>
            /\ ~plan[q[1]][j].baseline.defined
            /\ \E d \in 1..Len(getDisplayFeatures(plan[q[1]])) :
                 /\ getDisplayFeatures(plan[q[1]])[d].name = plan[q[1]][j].name
                 /\ badgeStatus(getDisplayFeatures(plan[q[1]])[d]) = "unknown"

\* The probe offsets, from the start index (s + i) mod poolSize of slot i
\* of section s, at which the pool entry is unused by id and by name.
freeOffsets(pool, s, i, usedIds, usedNames) ==
  {a \in 0..(Len(pool) - 1) :
     /\ pool[((s + i + a) % Len(pool)) + 1].featureId \notin usedIds
     /\ normalizedNameOf(pool[((s + i + a) % Len(pool)) + 1].name) \notin usedNames}

\* C21: slot i of section s takes the first pool entry, probing from index
\* (s + i) mod poolSize and advancing by one, whose id and lowercase-trimmed
\* name are both unused, and adds its id and name to the used-sets in the
\* same step; with no such entry it takes nothing.
C21_FillerIsFirstFree ==
  [][(pc = "section" /\ fill' = fill + 1) =>
       \E free \in {freeOffsets(demoPool, idx, fill, allUsedFeatureIds,
                                allUsedFeatureNames)} :
         IF free = {}
           THEN /\ fillers' = fillers
                /\ allUsedFeatureIds' = allUsedFeatureIds
                /\ allUsedFeatureNames' = allUsedFeatureNames
           ELSE \E pick \in {demoPool[((idx + fill + firstOf(free)) % Len(demoPool)) + 1]} :
                  /\ Len(fillers') = Len(fillers) + 1
                  /\ SubSeq(fillers', 1, Len(fillers)) = fillers
                  /\ fillers'[Len(fillers')].featureId = pick.featureId
                  /\ fillers'[Len(fillers')].name = pick.name
                  /\ pick.featureId \notin allUsedFeatureIds
                  /\ allUsedFeatureIds' = allUsedFeatureIds \cup {pick.featureId}
                  /\ allUsedFeatureNames' =
                       allUsedFeatureNames \cup {normalizedNameOf(pick.name)}]_vars

\* A slot whose starting entry was used has been filled with a later one.
C21_Witness ==
  /\ pc = "section"
  /\ pass = 1
  /\ fill >= 1
  /\ Len(fillers) = fill
  /\ fillers[fill].featureId # demoPool[((idx + fill - 1) % Len(demoPool)) + 1].featureId

\* C22: the pass terminates: a slot looks at no more than poolSize entries;
\* a section met with every pool entry used gets no filler and stays under
\* two mentions; and the pass goes on to the end of the plan, every section
\* being rewritten once.
C22_Terminates ==
  /\ [](pc = "section" /\ pos = Len(existing)
          /\ fill < neededFillers(enrichedExisting)
        => probeCount(idx, fill, 0, allUsedFeatureIds, allUsedFeatureNames)
             <= Len(demoPool))
  /\ [](SectionComplete
          /\ freeOffsets(demoPool, idx, 0,
                 allUsedFeatureIds \ {fillers[j].featureId : j \in 1..Len(fillers)},
                 allUsedFeatureNames
                   \ {trim(toLowerCase(fillers[j].name)) : j \in 1..Len(fillers)}) = {}
        => fillers = <<>>)
  /\ [](PassDone => idx = Len(plan) /\ Len(plan) = Len(aiPlan))
  /\ [](fill <= neededFillers(enrichedExisting))
  /\ (pc = "section") ~> PassDone

\* The pool ran out at the ninth section; the ninth and the tenth were left
\* short and the pass reached the end of the plan.
C22_Witness ==
  /\ PassDone
  /\ pass = 1
  /\ Len(plan) = 10
  /\ Len(plan[8]) = 2
  /\ Len(plan[9]) < 2
  /\ Len(plan[10]) < 2

(***************************************************************************)
(* Properties of the lookup functions                                      *)
(***************************************************************************)
\* C6: resolveFeatureIdByName applied to a declared alias string returns
\* the id of the record or manual entry that declared it.
C6_AliasResolvesToDeclarer ==
  call.fn = "resolveFeatureIdByName" =>
    \A d \in DeclaredAliases : d[1] = call.name => call.id = d[2]

\* C7: resolveFeatureIdByName("does-not-exist-xyz") returns undefined.
C7_UnknownNameUndefined ==
  ( /\ call.fn = "resolveFeatureIdByName"
    /\ call.name = <<"d","o","e","s","-","n","o","t","-","e","x","i","s","t","-","x","y","z">> )
  => call.id = Undefined

\* C8: for every dataset id getFeatureBaselineStatus returns a defined
\* result; its status is high for baseline true, low for baseline false,
\* the string itself otherwise, and one of high, low, unknown; its support
\* map has a boolean for every tracked browser: true for a string or number
\* version, the flag itself for a boolean, false when absent.
C8_DatasetStatus ==
  (call.fn = "getFeatureBaselineStatus" /\ call.featureId \in DatasetIds) =>
    LET rec == WEB_FEATURES_DATA[CHOOSE i \in 1..Len(WEB_FEATURES_DATA) :
                                   WEB_FEATURES_DATA[i].key = call.featureId]
        b == rec.status.baseline
        sup == rec.status.support
        res == call.baseline
    IN  /\ res.defined
        /\ res.status \in {"high", "low", "unknown"}
        /\ b = Bool(TRUE) => res.status = "high"
        /\ b = Bool(FALSE) => res.status = "low"
        /\ b.t = "string" => res.status = b.s
        /\ DOMAIN res.support = BrowserKeys
        /\ \A br \in BrowserKeys :
             /\ res.support[br] \in BOOLEAN
             /\ br \notin DOMAIN sup => res.support[br] = FALSE
             /\ br \in DOMAIN sup =>
                  /\ sup[br].t \in {"string", "number"} => res.support[br] = TRUE
                  /\ sup[br].t = "boolean" => res.support[br] = sup[br].b

\* The status of a record with a string baseline, a false flag and browsers
\* the record does not list.
C8_Witness ==
  /\ call.fn = "getFeatureBaselineStatus"
  /\ call.featureId = "html.attributes.popover"
  /\ call.baseline.defined
  /\ call.baseline.status = "low"
  /\ call.baseline.support["firefox"] = FALSE
  /\ call.baseline.support["chrome"] = TRUE
  /\ call.baseline.support["safari_ios"] = FALSE

\* C9: getFeatureBaselineStatus returns undefined exactly when neither
\* table has the id; getFeatureBaselineByName returns undefined exactly when
\* the name resolves to no id or to an id in neither table.
C9_Total ==
  /\ call.fn = "getFeatureBaselineStatus" =>
       (call.baseline = NoBaseline
          <=> call.featureId \notin (DatasetIds \cup MockIds))
  /\ call.fn = "getFeatureBaselineByName" =>
       (call.baseline = NoBaseline
          <=> LET id == resolveFeatureIdByName(call.name)
              IN  id = Undefined \/ id \notin (DatasetIds \cup MockIds))
  /\ call.fn \in {"getFeatureBaselineStatus", "getFeatureBaselineByName"} =>
       (call.baseline = NoBaseline \/ call.baseline.defined)

\* An id that no table has was looked up and the answer is undefined.
C9_Witness ==
  /\ call.fn = "getFeatureBaselineStatus"
  /\ call.featureId = "css.properties.subgrid"
  /\ call.baseline = NoBaseline

\* The keys the dataset records assign, and the positions of the
\* assignments whose key is part of n or has n as a part.
keysOf(assignments) == {assignments[j][1] : j \in 1..Len(assignments)}
matching(assignments, n) ==
  {j \in 1..Len(assignments) :
     includes(n, assignments[j][1]) \/ includes(assignments[j][1], n)}
DatasetKeys == keysOf(datasetAssignments(WEB_FEATURES_DATA, 1))
AssignedKeys == keysOf(aliasAssignments)

C20_FirstSubstringMatch ==
  (call.fn = "resolveFeatureIdByName" /\ normalize(call.name) \notin AssignedKeys) =>
    \E first \in {matching(aliasAssignments, normalize(call.name))} :
      IF first = {} THEN call.id = Undefined
      ELSE \E entries \in {aliasAssignments} :
             call.id = lastAssigned(entries, entries[firstOf(first)][1])

C20_Witness ==
  /\ call.fn = "resolveFeatureIdByName"
  /\ normalize(call.name) \notin AssignedKeys
  /\ \E entries \in {aliasAssignments} :
     \E first \in {matching(entries, normalize(call.name))} :
       /\ first # {}
       /\ call.id = entries[firstOf(first)][2]
       /\ \E j \in first : entries[j][2] # call.id

(***************************************************************************)
(* Properties of the analysis and chat requests                            *)
(***************************************************************************)
\* C12: without an API key, analyzeUIDesign and chatAboutImplementation
\* fail at once with the missing-key error: no image is read and no
\* provider call is issued, before the failure or after it.
C12_MissingKeyFailsFirst ==
  ~apiKey =>
    /\ inFlight = [analysis |-> 0, chat |-> 0]
    /\ analyze.fileReads = 0 /\ analyze.providerCalls = 0
    /\ chat.providerCalls = 0
    /\ analyze.step \in {"idle", "import", "catch"}
    /\ chat.step \in {"idle", "import", "catch"}
    /\ analyze.step = "catch" => analyze.thrown = MissingKeyMessage
    /\ chat.step = "catch" => chat.thrown = MissingKeyMessage
    /\ finished.done =>
         /\ finished.thrown = MissingKeyMessage
         /\ finished.fileReads = 0 /\ finished.providerCalls = 0

C12_Witness ==
  /\ ~apiKey
  /\ analyze.step = "catch" /\ analyze.thrown = MissingKeyMessage
  /\ chat.step = "catch" /\ chat.thrown = MissingKeyMessage

\* C13: when the provider call of an analysis fails, that call was the only
\* one, analyzeUIDesign throws its generic message, and handleAnalyze ends
\* with an empty implementationPlan and the error text set.
C13_ProviderFailure ==
  /\ analyze.providerCalls <= 1
  /\ (finished.done /\ finished.outcome = "rejected") =>
       /\ finished.providerCalls = 1
       /\ finished.thrown = RequestFailedMessage
       /\ finished.implementationPlan = EmptyPlan
       /\ finished.error = "Analysis failed: " \o RequestFailedMessage
       /\ ~isLoading
       /\ analyze = NoAnalyze

C13_Witness ==
  /\ finished.done /\ finished.outcome = "rejected"
  /\ finished.error # ""

\* C14: at most one AI request is in flight at any time, of either kind.
C14_OneRequestInFlight == inFlight.analysis + inFlight.chat <= 1

\* C24: isLoading is set exactly while handleAnalyze waits for its
\* analysis.  Without a selected file handleAnalyze sets the error and starts
\* nothing; with one it sets isLoading and clears the plan and the error;
\* when the analysis has settled, with a result or an error, isLoading is
\* cleared; so an analysis that settles always leaves the application not
\* loading.
C24_LoadingWhileOutstanding ==
  /\ [](isLoading <=> analyze.step # "idle")
  /\ [](inFlight.analysis > 0 => isLoading)
  /\ [][HandleAnalyze =>
          IF ~selectedFile
            THEN /\ error' = NoFileMessage
                 /\ ~isLoading' /\ analyze' = NoAnalyze /\ inFlight' = inFlight
            ELSE /\ isLoading' /\ implementationPlan' = EmptyPlan /\ error' = ""
                 /\ analyze'.step # "idle"]_vars
  /\ [][(analyze.step # "idle" /\ analyze'.step = "idle") => ~isLoading']_vars
  /\ isLoading ~> ~isLoading

\* An analysis whose answer was not JSON has ended and isLoading is cleared.
C24_Witness ==
  /\ finished.done /\ finished.outcome = "notJson"
  /\ ~isLoading /\ inFlight.analysis = 0

\* C25: the transcript only grows, one message at a time: a user message
\* when a send is accepted (input not blank, no reply pending), and one
\* assistant message, the reply or the apology, when the request settled.
\* So it alternates user, assistant from the first message on, a reply is
\* pending exactly when it ends with a user message, and the history given
\* to chatAboutImplementation is the transcript before that user message.
C25_TranscriptWellFormed ==
  /\ [][messages' # messages =>
          /\ Len(messages') = Len(messages) + 1
          /\ SubSeq(messages', 1, Len(messages)) = messages
          /\ IF messages'[Len(messages')] = "user"
               THEN inputValue /\ ~chatIsLoading /\ chatIsLoading'
               ELSE chatIsLoading /\ ~chatIsLoading'
                    /\ chat.step \in {"returned", "catch"}
                    /\ (messages'[Len(messages')] = "apology")
                         <=> (chat.step = "catch")]_vars
  /\ [][(~inputValue \/ chatIsLoading) /\ HandleSendMessage => UNCHANGED vars]_vars
  /\ [](\A i \in 1..Len(messages) :
          IF i % 2 = 1 THEN messages[i] = "user"
          ELSE messages[i] \in {"assistant", "apology"})
  /\ [](chatIsLoading <=> Len(messages) % 2 = 1)
  /\ [](chatIsLoading <=> chat.step # "idle")
  /\ [](chatIsLoading =>
          chat.history = SubSeq(messages, 1, Len(messages) - 1))

\* A second exchange is under way after a first that ended with the
\* apology: the history holds the first exchange.
C25_Witness ==
  /\ chat.step = "requested"
  /\ messages = <<"user", "apology", "user">>
  /\ chat.history = <<"user", "apology">>

\* C26: a plan on display was made from the file that is selected now.
C26_PlanOfSelectedFile ==
  implementationPlan # EmptyPlan =>
    (selectedFile /\ fileOf.plan = fileOf.selected)

\* C28: an error message and a plan are never shown together.
C28_ErrorOrPlan == error # "" => implementationPlan = EmptyPlan

(***************************************************************************)
(* Properties of fallback generation                                       *)
(***************************************************************************)
\* What generateFallback returns when the request failed: the proxy could
\* not be reached, or the AI call was rejected.
RequestFailedValues == {MockFallback, ErrorPayload("rejected")}

\* C11: a response that is not valid JSON is surfaced to the caller as an
\* error that differs from the one a failed request gives.  (Here for the
\* fallback response, whose caller is the caller of generateFallback.)
C11_ParseFailureDistinct ==
  (/\ fallback.result.returned
   /\ fallback.cause \in {StringOfError("notJson"), "notJsonBody"})
    => fallback.result.value \notin RequestFailedValues

C16_AlwaysFallbackCode ==
  fallback.result.returned =>
    {"code", "bundleSizeImpact", "notes"} \subseteq DOMAIN fallback.result.value

(***************************************************************************)
(* Properties of the theme                                                 *)
(***************************************************************************)
Settled == effects = <<>> /\ updates = <<>>

\* C18: once the effects have run the stored theme is the current theme;
\* after a reload the application settles on the theme it had before; and
\* without a stored value it settles on the system preference.
C18_ThemePersisted ==
  Settled =>
    /\ stored = theme
    /\ darkClass = (theme = "dark")
    /\ ~session.toggled =>
         /\ session.before # Undefined => theme = session.before
         /\ session.storedAtMount = Undefined =>
              theme = IF prefersDark THEN "dark" ELSE "light"

C18_Witness ==
  /\ Settled
  /\ ~session.toggled
  /\ session.before = "dark"
  /\ theme = "dark" /\ stored = "dark"

\* C29: in the plan the pass leaves, a mention that has a featureId and a
\* baseline carrying an id has that id as its featureId, and the featureId
\* is among the used ids.
C29_BaselineMatchesId ==
  PassDone =>
    \A q \in Positions(plan) :
      \E m \in {plan[q[1]][q[2]]} :
        (Truthy(m.featureId) /\ m.baseline.defined /\ Truthy(m.baseline.id))
          => (m.baseline.id = m.featureId /\ m.featureId \in allUsedFeatureIds)

\* C30: in the plan the pass leaves, no two mentions, kept or filled in,
\* have names that are variations of each other.
C30_NoVariationsLeft ==
  PassDone =>
    \A q \in Positions(plan) : \A r \in Positions(plan) \ {q} :
      ~isVariationOfExisting(normalizedNameOf(plan[q[1]][q[2]].name),
                             {normalizedNameOf(plan[r[1]][r[2]].name)})

(***************************************************************************)
(* Properties of the filters of the feature list                           *)
(***************************************************************************)
\* Rounds of effects, each on the filters the round before left, until one
\* turns nothing off; FALSE when n rounds do not get there.
RECURSIVE settlesWithin(_, _, _)
settlesWithin(entries, f, n) ==
  \E off \in {resetBy(entries, f)} :
    IF off = {} THEN TRUE
    ELSE n > 0 /\ settlesWithin(entries, afterEffects(f, off), n - 1)

\* C23: once the effects have run without turning anything off, the
\* selected group is "all" or a group that an entry of the active section
\* has under the toggles and the tag, and every enabled toggle has a
\* positive count; from every state the rounds of effects end after at most
\* as many rounds as there are filters to turn off.
C23_FiltersAvailable ==
  /\ ~effectsDue =>
       /\ \/ filters.selectedGroup = "all"
          \/ filters.selectedGroup
               \in availableGroups(enrichedAt(props, activeTab), filters)
       /\ \A t \in Toggles :
            filters[t] =>
              isPositive(toggleCounts(enrichedAt(props, activeTab), filters),
                         CountKeys[t])
  /\ settlesWithin(enrichedAt(props, activeTab), filters,
                   Cardinality(Toggles) + 1)

\* The effects have turned off the group and a toggle after a tab change,
\* and have settled.
C23_Witness ==
  /\ ~effectsDue
  /\ "selectedGroup" \in resets
  /\ resets \cap CountedToggles # {}
  /\ TabsShown

\* C27: whenever a non-empty plan is displayed, activeTab is the index of
\* one of its sections.
C27_ActiveTabInRange ==
  TabsShown => (0 <= activeTab /\ activeTab < Len(props.implementationPlan))

(***************************************************************************)
(* Specifications                                                          *)
(***************************************************************************)

\* Lookup calls on the module's exported functions; no analysis runs.
InitLookup ==
  /\ call = NoCall
  /\ StartPass(<<>>)
  /\ AppQuiet /\ FallbackQuiet /\ ThemeQuiet /\ DisplayQuiet
NextLookup ==
  \/ \E n \in LookupNames : CallResolveFeatureIdByName(n)
  \/ \E id \in LookupIds : CallGetFeatureBaselineStatus(id)
  \/ \E n \in LookupNames : CallGetFeatureBaselineByName(n)
  \/ Return
SpecLookup == InitLookup /\ [][NextLookup]_vars

\* The deduplication pass over every plan the AI may return.
NextDedup ==
  \/ FilterMention
  \/ FillSlot
  \/ EndSection
  \/ Reprocess
SpecDedup == InitDedup /\ [][NextDedup]_vars

\* The pass is synchronous code: a step that can be taken is taken.
SpecDedupFair == SpecDedup /\ WF_vars(NextDedup)

SpecApp == InitApp /\ [][NextApp]_vars

\* The steps of a started analysis are taken: the continuations of
\* handleAnalyze run when their promises settle, and the provider call is
\* assumed to settle.
SpecAppFair ==
  /\ SpecApp
  /\ WF_vars(AnalyzeUIDesign)
  /\ WF_vars(AnalyzeGenerateContent)
  /\ WF_vars(\E outcome \in AnalysisOutcomes : AnalyzeSettles(outcome))
  /\ WF_vars(HandleAnalyzeFinish)

SpecFallback == InitFallback /\ [][NextFallback]_vars

SpecTheme == InitTheme /\ [][NextTheme]_vars

SpecDisplay == InitDisplay /\ [][NextDisplay]_vars
=============================================================================
